---- MODULE Spec2Model ----
(***************************************************************************)
(* Model of the retrieval-and-answer core of local-rag-chatbot:            *)
(*   - hybrid_chunking            (src/modules/document_processor.py)      *)
(*   - the chat_page pipeline, with its query expansion and the session's  *)
(*     history                    (src/app.py)                             *)
(*   - process_documents / process_urls, the ingestion batch (src/app.py)  *)
(*   - generate_rag_response      (src/modules/llm_local.py)               *)
(* Strings are sequences of one-character strings.  Distances are the      *)
(* index's floats scaled by 10 (1.2 is 12, 1.8 is 18).                     *)
(***************************************************************************)
EXTENDS Integers, Sequences, FiniteSets, TLC

VARIABLES
    \* hybrid_chunking: arguments, result, position
    text, target_size, max_size, overlap, final_chunks, ck_pc,
    \* chat_page: the session's history and the request being handled
    messages,            \* st.session_state.messages
    prompt,              \* the chat input
    query_embedding,     \* result of embedding the expanded query
    original_embedding,  \* result of embedding the prompt
    chunks_expanded,     \* what the index holds nearest to the expanded query
    chunks_original,     \* what the index holds nearest to the prompt
    similar_chunks,      \* the merged candidates (line 796)
    context,             \* the chunks passed to generate_rag_response
    outcome,             \* how the request ended
    embedding_calls,     \* calls of generate_embeddings_for_query
    search_calls,        \* calls of search_similar_chunks
    generate_calls,      \* calls of generate_rag_response
    response,            \* the response of line 914 or 920
    context_hints,       \* relevant_context[:5] (line 708)
    query_hints,         \* the hints collected by the expansion rules
    expanded_query,      \* the text embedded for the first search
    gating,              \* how far the keyword gating went (lines 813-847)
    first_pass_chunks,   \* filtered_chunks after the first pass (line 827)
    rescan_chunks,       \* filtered_chunks after the keyword re-scan (line 837)
    gated_chunks,        \* similar_chunks after the gating (line 847)
    uncapped_chunks,     \* filtered_chunks of line 891, cut to 15 at line 892
    chat_pc,
    \* generate_rag_response: arguments, prompt sources, returned value
    question, context_chunks, prompt_context, answer, synth_pc,
    post_calls,          \* requests.post calls to the generation backend
    cleaned_lines,       \* the lines kept by the loop of lines 172-189
    \* the generation backend's reply to the request
    reply,
    \* process_documents / process_urls: the batch and the vector index
    batch_kind,          \* "documents" or "urls": which of the two runs
    uploaded_files,      \* the batch (uploaded_files, or urls)
    item_index,          \* items the loop has been through (idx)
    successful_files,    \* successful_files / successful_urls
    failed_files,        \* failed_files / failed_urls
    file_status,         \* file_status / url_status, in insertion order
    collection,          \* the records held by the ChromaDB collection
    store_calls,         \* calls of store_document_chunks that added records
    ingest_pc

ck_vars == <<text, target_size, max_size, overlap, final_chunks, ck_pc>>
chat_vars == <<messages, prompt, query_embedding, original_embedding,
               chunks_expanded, chunks_original, similar_chunks, context,
               outcome, embedding_calls, search_calls, generate_calls, response,
               context_hints, query_hints, expanded_query, gating,
               first_pass_chunks, rescan_chunks, gated_chunks,
               uncapped_chunks, chat_pc>>
synth_vars == <<question, context_chunks, prompt_context, answer, synth_pc,
                post_calls, cleaned_lines>>

ingest_vars == <<batch_kind, uploaded_files, item_index, successful_files,
                 failed_files, file_status, collection, store_calls, ingest_pc>>

vars == <<ck_vars, chat_vars, synth_vars, reply, ingest_vars>>

(***************************************************************************)
(* Bounds                                                                  *)
(***************************************************************************)
MaxTextLen == 6
MaxTarget == 2
MaxMax == 4
MaxOverlap == 2
\* hits the two searches return in total
MaxHits == 4
\* chunks in a context given to generate_rag_response, lines in a backend reply
\* turns in the history when a chat input arrives
MaxHistory == 4
\* candidates of one large retrieval, those of them at the lesser distance
MaxCandidates == 31
MaxNear == 6
\* items in an ingestion batch, pages extracted from one item
MaxBatch == 2
MaxPages == 1
MaxContext == 8
MaxReplyLines == 3

(***************************************************************************)
(* Characters and the string primitives of Python used by the chunker      *)
(***************************************************************************)
SP == " "
NL == "\n"
Letter == "a"
Dot == "."
Chars == {Letter, Dot, SP, NL}

IsSpace(c) == c \in {SP, NL}
IsTerminator(c) == c \in {".", "!", "?"}

SetMin(S) == CHOOSE x \in S : \A y \in S : x <= y
SetMax(S) == CHOOSE x \in S : \A y \in S : x >= y

RECURSIVE lstrip(_)
lstrip(s) == IF s # <<>> /\ IsSpace(Head(s)) THEN lstrip(Tail(s)) ELSE s

RECURSIVE rstrip(_)
rstrip(s) ==
    IF s # <<>> /\ IsSpace(s[Len(s)]) THEN rstrip(SubSeq(s, 1, Len(s) - 1)) ELSE s

\* str.strip()
strip(s) == rstrip(lstrip(s))

\* s[-n:] for n > 0
LastChars(s, n) == IF n >= Len(s) THEN s ELSE SubSeq(s, Len(s) - n + 1, Len(s))

\* text.split('\n\n')
RECURSIVE split_paragraphs(_)
split_paragraphs(s) ==
    LET idx == {i \in 1..(Len(s) - 1) : s[i] = NL /\ s[i + 1] = NL} IN
    IF idx = {} THEN <<s>>
    ELSE LET i == SetMin(idx) IN
         <<SubSeq(s, 1, i - 1)>> \o split_paragraphs(SubSeq(s, i + 2, Len(s)))

\* re.split(r'(?<=[.!?])\s+', chunk)
RECURSIVE split_sentences(_)
split_sentences(s) ==
    LET starts == {i \in 2..Len(s) : IsSpace(s[i]) /\ IsTerminator(s[i - 1])} IN
    IF starts = {} THEN <<s>>
    ELSE LET i == SetMin(starts)
             j == SetMax({k \in i..Len(s) : \A m \in i..k : IsSpace(s[m])})
         IN <<SubSeq(s, 1, i - 1)>> \o split_sentences(SubSeq(s, j + 1, Len(s)))

(***************************************************************************)
(* String primitives of Python used by the chat pipeline                   *)
(***************************************************************************)
UpperCase == <<"A", "B", "C", "D", "E", "F", "G", "H", "I", "J", "K", "L", "M",
               "N", "O", "P", "Q", "R", "S", "T", "U", "V", "W", "X", "Y", "Z">>
LowerCase == <<"a", "b", "c", "d", "e", "f", "g", "h", "i", "j", "k", "l", "m",
               "n", "o", "p", "q", "r", "s", "t", "u", "v", "w", "x", "y", "z">>
Digits == {"0", "1", "2", "3", "4", "5", "6", "7", "8", "9"}

IsUpper(c) == \E i \in 1..26 : UpperCase[i] = c
IsLower(c) == \E i \in 1..26 : LowerCase[i] = c
IsDigit(c) == c \in Digits
\* \w
IsWordChar(c) == IsUpper(c) \/ IsLower(c) \/ IsDigit(c) \/ c = "_"

lower_char(c) ==
    IF IsUpper(c) THEN LowerCase[CHOOSE i \in 1..26 : UpperCase[i] = c] ELSE c

\* str.lower()
lower(s) == [i \in 1..Len(s) |-> lower_char(s[i])]

\* sub in s
Contains(s, sub) ==
    \E i \in 0..(Len(s) - Len(sub)) : SubSeq(s, i + 1, i + Len(sub)) = sub

\* s.startswith(p)
startswith(s, p) == Len(p) <= Len(s) /\ SubSeq(s, 1, Len(p)) = p

\* any(phrase in s for phrase in phrases)
ContainsAny(s, phrases) == \E ph \in phrases : Contains(s, ph)

\* the maximal runs of word characters (kind "word") or of non-whitespace
\* characters (kind "token"), in order
InRun(kind, c) == IF kind = "word" THEN IsWordChar(c) ELSE ~IsSpace(c)

Runs(s, kind) ==
    LET starts == {i \in 1..Len(s) :
                      InRun(kind, s[i]) /\ (i = 1 \/ ~InRun(kind, s[i - 1]))}
        ends == {j \in 1..Len(s) :
                    InRun(kind, s[j]) /\ (j = Len(s) \/ ~InRun(kind, s[j + 1]))}
        start(k) == CHOOSE i \in starts : Cardinality({x \in starts : x < i}) = k - 1
        end_of(i) == SetMin({j \in ends : j >= i})
    IN [k \in 1..Cardinality(starts) |-> SubSeq(s, start(k), end_of(start(k)))]

\* re.findall(r'\b\w+\b', s)
find_words(s) == Runs(s, "word")

\* re.findall(r'\b[A-Z]{2,}\b', s): the words made of two or more capitals
find_acronyms(s) ==
    SelectSeq(find_words(s),
              LAMBDA w : Len(w) >= 2 /\ \A i \in 1..Len(w) : IsUpper(w[i]))

\* str.split()
split_words(s) == Runs(s, "token")

Range(f) == {f[i] : i \in DOMAIN f}


(***************************************************************************)
(* The vector index as seen by chat_page.  A stored chunk has an id and a  *)
(* text; a search hit is the chunk's id with the distance of that search   *)
(* (the other keys of a hit - doc_name, chunk_index, page_number - are     *)
(* functions of the id and are only displayed).                            *)
(***************************************************************************)
\* 'AIDP pricing is based on compute units, OCPU and memory.'
T_pricing ==
    <<"A", "I", "D", "P", " ", "p", "r", "i", "c", "i", "n", "g", " ", "i",
      "s", " ", "b", "a", "s", "e", "d", " ", "o", "n", " ", "c", "o", "m",
      "p", "u", "t", "e", " ", "u", "n", "i", "t", "s", ",", " ", "O", "C",
      "P", "U", " ", "a", "n", "d", " ", "m", "e", "m", "o", "r", "y", ".">>

\* 'Connect as SYS and run CREATE USER jdoe IDENTIFIED BY pwd;'
T_create_user ==
    <<"C", "o", "n", "n", "e", "c", "t", " ", "a", "s", " ", "S", "Y", "S",
      " ", "a", "n", "d", " ", "r", "u", "n", " ", "C", "R", "E", "A", "T",
      "E", " ", "U", "S", "E", "R", " ", "j", "d", "o", "e", " ", "I", "D",
      "E", "N", "T", "I", "F", "I", "E", "D", " ", "B", "Y", " ", "p", "w",
      "d", ";">>

\* 'AIDP overview'
T_short ==
    <<"A", "I", "D", "P", " ", "o", "v", "e", "r", "v", "i", "e", "w">>

\* 'The AIDP cluster page lists every compute unit of a tenant.'
T_cluster ==
    <<"T", "h", "e", " ", "A", "I", "D", "P", " ", "c", "l", "u", "s", "t",
      "e", "r", " ", "p", "a", "g", "e", " ", "l", "i", "s", "t", "s", " ",
      "e", "v", "e", "r", "y", " ", "c", "o", "m", "p", "u", "t", "e", " ",
      "u", "n", "i", "t", " ", "o", "f", " ", "a", " ", "t", "e", "n", "a",
      "n", "t", ".">>

TextTable == <<T_pricing, T_create_user, T_short, T_cluster>>

TextTableLower == [i \in 1..Len(TextTable) |-> lower(TextTable[i])]

\* the index holds one chunk per text
ChunkIds == 1..Len(TextTable)

\* the text stored under a chunk id: the four texts, in turn
TextIndex(id) == ((id - 1) % Len(TextTable)) + 1

\* chunk.get('chunk_text', '')
chunk_text(chunk) == TextTable[TextIndex(chunk.chunk_id)]
\* chunk.get('chunk_text', '').lower()
chunk_text_lower(chunk) == TextTableLower[TextIndex(chunk.chunk_id)]

\* distances in tenths: below the primary threshold, at it, and at the
\* fallback threshold; the distances about 0.9 and 1.0 that the first pass
\* of the gating tells apart are drawn by InitGate
Distances == {11, 12, 18}
Hits == [chunk_id : ChunkIds, distance : Distances]

IsSortedByDistance(chunks) ==
    \A i \in 1..(Len(chunks) - 1) : chunks[i].distance <= chunks[i + 1].distance
HasNoDuplicateId(chunks) ==
    \A i, j \in 1..Len(chunks) : i # j => chunks[i].chunk_id # chunks[j].chunk_id

\* what one search can return: nearest first, every stored chunk at most once
RECURSIVE ResultListsOfLen(_)
ResultListsOfLen(n) ==
    IF n = 0 THEN {<<>>}
    ELSE {l \in {Append(p, h) : p \in ResultListsOfLen(n - 1), h \in Hits} :
             IsSortedByDistance(l) /\ HasNoDuplicateId(l)}

(***************************************************************************)
(* The chat inputs and backend replies of the model                        *)
(***************************************************************************)
\* 'How does AIDP work?'
P_how ==
    <<"H", "o", "w", " ", "d", "o", "e", "s", " ", "A", "I", "D", "P", " ",
      "w", "o", "r", "k", "?">>

\* 'What is this about?'
P_about ==
    <<"W", "h", "a", "t", " ", "i", "s", " ", "t", "h", "i", "s", " ", "a",
      "b", "o", "u", "t", "?">>

\* 'Tell me about AIDP'
P_tell ==
    <<"T", "e", "l", "l", " ", "m", "e", " ", "a", "b", "o", "u", "t", " ",
      "A", "I", "D", "P">>

\* 'please fix the error'
P_fix ==
    <<"p", "l", "e", "a", "s", "e", " ", "f", "i", "x", " ", "t", "h", "e",
      " ", "e", "r", "r", "o", "r">>

\* "I couldn't find relevant information in the documents for your question. Please try rephrasing or ask about a different topic."
no_relevant_response ==
    <<"I", " ", "c", "o", "u", "l", "d", "n", "'", "t", " ", "f", "i", "n",
      "d", " ", "r", "e", "l", "e", "v", "a", "n", "t", " ", "i", "n", "f",
      "o", "r", "m", "a", "t", "i", "o", "n", " ", "i", "n", " ", "t", "h",
      "e", " ", "d", "o", "c", "u", "m", "e", "n", "t", "s", " ", "f", "o",
      "r", " ", "y", "o", "u", "r", " ", "q", "u", "e", "s", "t", "i", "o",
      "n", ".", " ", "P", "l", "e", "a", "s", "e", " ", "t", "r", "y", " ",
      "r", "e", "p", "h", "r", "a", "s", "i", "n", "g", " ", "o", "r", " ",
      "a", "s", "k", " ", "a", "b", "o", "u", "t", " ", "a", " ", "d", "i",
      "f", "f", "e", "r", "e", "n", "t", " ", "t", "o", "p", "i", "c", ".">>

\* 'AIDP is priced per compute unit.'
R_plain ==
    <<"A", "I", "D", "P", " ", "i", "s", " ", "p", "r", "i", "c", "e", "d",
      " ", "p", "e", "r", " ", "c", "o", "m", "p", "u", "t", "e", " ", "u",
      "n", "i", "t", ".">>

\* 'What are the complete steps to create a user?'
P_steps ==
    <<"W", "h", "a", "t", " ", "a", "r", "e", " ", "t", "h", "e", " ", "c",
      "o", "m", "p", "l", "e", "t", "e", " ", "s", "t", "e", "p", "s", " ",
      "t", "o", " ", "c", "r", "e", "a", "t", "e", " ", "a", " ", "u", "s",
      "e", "r", "?">>

\* lines a backend reply is made of
\* 'GRANT CREATE VIEW TO jdoe;'
L_grant ==
    <<"G", "R", "A", "N", "T", " ", "C", "R", "E", "A", "T", "E", " ", "V",
      "I", "E", "W", " ", "T", "O", " ", "j", "d", "o", "e", ";">>

\* '3) CREATE USER jdoe IDENTIFIED BY pwd;'
L_numbered_create ==
    <<"3", ")", " ", "C", "R", "E", "A", "T", "E", " ", "U", "S", "E", "R",
      " ", "j", "d", "o", "e", " ", "I", "D", "E", "N", "T", "I", "F", "I",
      "E", "D", " ", "B", "Y", " ", "p", "w", "d", ";">>

\* 'Run these statements as SYS:'
L_intro ==
    <<"R", "u", "n", " ", "t", "h", "e", "s", "e", " ", "s", "t", "a", "t",
      "e", "m", "e", "n", "t", "s", " ", "a", "s", " ", "S", "Y", "S", ":">>

\* ') TABLESPACE users'
L_paren ==
    <<")", " ", "T", "A", "B", "L", "E", "S", "P", "A", "C", "E", " ", "u",
      "s", "e", "r", "s">>

\* 'Do NOT repeat these instructions'
L_echo ==
    <<"D", "o", " ", "N", "O", "T", " ", "r", "e", "p", "e", "a", "t", " ",
      "t", "h", "e", "s", "e", " ", "i", "n", "s", "t", "r", "u", "c", "t",
      "i", "o", "n", "s">>

\* 'Use the command below'
L_fragment ==
    <<"U", "s", "e", " ", "t", "h", "e", " ", "c", "o", "m", "m", "a", "n",
      "d", " ", "b", "e", "l", "o", "w">>

\* 'The source does not provide more.'
L_no_more ==
    <<"T", "h", "e", " ", "s", "o", "u", "r", "c", "e", " ", "d", "o", "e",
      "s", " ", "n", "o", "t", " ", "p", "r", "o", "v", "i", "d", "e", " ",
      "m", "o", "r", "e", ".">>

ReplyLines ==
    {<<>>, L_grant, L_numbered_create, L_intro, L_paren, L_echo, L_fragment,
     L_no_more}

\* every chat input of the model
AllPrompts == {P_how, P_about, P_tell, P_fix, P_steps}

(***************************************************************************)
(* chat_page: input classification (lines 648-659)                         *)
(***************************************************************************)
question_words ==
    {<<"w", "h", "a", "t">>,
     <<"h", "o", "w">>,
     <<"w", "h", "e", "r", "e">>,
     <<"w", "h", "e", "n">>,
     <<"w", "h", "y">>,
     <<"w", "h", "o">>,
     <<"w", "h", "i", "c", "h">>,
     <<"e", "x", "p", "l", "a", "i", "n">>,
     <<"d", "e", "s", "c", "r", "i", "b", "e">>,
     <<"t", "e", "l", "l", " ", "m", "e">>,
     <<"s", "h", "o", "w", " ", "m", "e">>}

feedback_phrases ==
    {<<"n", "o", "t", " ", "c", "o", "m", "p", "l", "e", "t", "e">>,
     <<"i", "n", "c", "o", "m", "p", "l", "e", "t", "e">>,
     <<"w", "r", "o", "n", "g">>,
     <<"i", "n", "c", "o", "r", "r", "e", "c", "t">>,
     <<"n", "o", "t", " ", "r", "i", "g", "h", "t">>,
     <<"d", "o", "e", "s", "n", "'", "t", " ", "w", "o", "r", "k">>,
     <<"n", "o", "t", " ", "w", "o", "r", "k", "i", "n", "g">>,
     <<"e", "r", "r", "o", "r">>,
     <<"f", "i", "x">>,
     <<"h", "e", "l", "p">>,
     <<"a", "n", "s", "w", "e", "r", " ", "i", "s", " ", "n", "o", "t">>}

\* the test that looks at the first word only
is_question_by_word_only(q) ==
    \E word \in question_words : startswith(strip(lower(q)), word)

\* line 652
is_question(q) ==
    \/ \E word \in question_words : startswith(strip(lower(q)), word)
    \/ Contains(q, <<"?">>)

is_feedback(q) ==
    ContainsAny(strip(lower(q)), feedback_phrases) /\ ~is_question(q)
FeedbackInputs == {p \in AllPrompts : is_feedback(p)}
is_feedback_input(q) ==
    IF q \in AllPrompts THEN q \in FeedbackInputs ELSE is_feedback(q)

(***************************************************************************)
(* chat_page: combine and deduplicate, sort by distance (lines 785-796)    *)
(***************************************************************************)
\* dedupe that forgets to record the ids it has seen
dedupe_forgetful(all_chunks, seen_ids) == all_chunks

RECURSIVE dedupe(_, _)
dedupe(all_chunks, seen_ids) ==
    IF all_chunks = <<>> THEN <<>>
    ELSE LET chunk == Head(all_chunks) IN
         IF chunk.chunk_id \notin seen_ids
             THEN <<chunk>> \o dedupe(Tail(all_chunks), seen_ids \cup {chunk.chunk_id})
             ELSE dedupe(Tail(all_chunks), seen_ids)

\* sorted(chunks, key=lambda x: x.get('distance', 1.0)), a stable sort: the
\* chunks of the least distance in the order they have, then the others
RECURSIVE sort_by_distance_from(_, _)
sort_by_distance_from(chunks, distances) ==
    IF distances = {} THEN <<>>
    ELSE LET least == SetMin(distances) IN
         SelectSeq(chunks, LAMBDA c : c.distance = least)
             \o sort_by_distance_from(chunks, distances \ {least})

sort_by_distance(chunks) ==
    sort_by_distance_from(chunks, {chunks[i].distance : i \in 1..Len(chunks)})

\* the merge that puts the results of the original query first
unique_chunks_original_first(from_expanded, from_original) ==
    dedupe(from_original \o from_expanded, {})

\* lines 786-794: all_chunks = chunks_expanded + chunks_original, then the
\* first entry of every chunk_id
unique_chunks(from_expanded, from_original) ==
    dedupe(from_expanded \o from_original, {})

combine_results(from_expanded, from_original) ==
    sort_by_distance(unique_chunks(from_expanded, from_original))

(***************************************************************************)
(* chat_page: keyword gating (lines 798-847)                               *)
(***************************************************************************)
stop_words ==
    {<<"w", "h", "a", "t">>,
     <<"h", "o", "w">>,
     <<"w", "h", "e", "n">>,
     <<"w", "h", "e", "r", "e">>,
     <<"w", "h", "i", "c", "h">>,
     <<"w", "h", "o">>,
     <<"w", "h", "y">>,
     <<"w", "i", "l", "l">>,
     <<"d", "o", "e", "s">>,
     <<"i", "s">>,
     <<"a", "r", "e">>,
     <<"t", "h", "e">>,
     <<"a">>,
     <<"a", "n">>,
     <<"a", "n", "d">>,
     <<"o", "r">>,
     <<"b", "u", "t">>,
     <<"i", "n">>,
     <<"o", "n">>,
     <<"a", "t">>,
     <<"t", "o">>,
     <<"f", "o", "r">>,
     <<"o", "f">>,
     <<"w", "i", "t", "h">>,
     <<"a", "b", "o", "u", "t">>,
     <<"t", "h", "i", "s">>,
     <<"t", "h", "a", "t">>,
     <<"t", "h", "e", "s", "e">>,
     <<"t", "h", "o", "s", "e">>}

\* line 809
acronyms_of(q) == find_acronyms(q)

\* lines 805-810
question_keywords(q) ==
    {lower(w) : w \in {x \in Range(find_words(q)) :
                          Len(x) > 3 /\ lower(x) \notin stop_words}}
    \cup {lower(a) : a \in Range(acronyms_of(q))}

\* The substring tests on chunk texts are tabulated once for the words the
\* model's chat inputs yield; any other word is searched directly.
Needles ==
    UNION {question_keywords(p) \cup Range(acronyms_of(p)) : p \in AllPrompts}
TextHits == [i \in DOMAIN TextTable |-> {n \in Needles : Contains(TextTable[i], n)}]
LowerTextHits ==
    [i \in DOMAIN TextTable |-> {n \in Needles : Contains(TextTableLower[i], n)}]

\* needle in chunk.get('chunk_text', '')
in_chunk_text(needle, chunk) ==
    IF needle \in Needles THEN needle \in TextHits[TextIndex(chunk.chunk_id)]
    ELSE Contains(chunk_text(chunk), needle)
\* needle in chunk_text_lower
in_chunk_text_lower(needle, chunk) ==
    IF needle \in Needles THEN needle \in LowerTextHits[TextIndex(chunk.chunk_id)]
    ELSE Contains(chunk_text_lower(chunk), needle)

\* line 818
keyword_matches(chunk, keywords) ==
    Cardinality({kw \in keywords : in_chunk_text_lower(kw, chunk)})

\* line 820
acronym_matches(chunk, acronyms) ==
    Cardinality({i \in 1..Len(acronyms) :
                    \/ in_chunk_text_lower(lower(acronyms[i]), chunk)
                    \/ in_chunk_text(acronyms[i], chunk)})

InList(chunk, chunks) == \E i \in 1..Len(chunks) : chunks[i] = chunk
Take(chunks, n) == SubSeq(chunks, 1, IF Len(chunks) < n THEN Len(chunks) ELSE n)

\* the first pass that does not look for the question's keywords
RECURSIVE first_pass_without_keywords(_, _, _, _)
first_pass_without_keywords(chunks, filtered_chunks, keywords, acronyms) ==
    IF chunks = <<>> THEN filtered_chunks
    ELSE LET chunk == Head(chunks) IN
         IF \/ acronym_matches(chunk, acronyms) > 0
            \/ chunk.distance < 9
         THEN first_pass_without_keywords(Tail(chunks), Append(filtered_chunks, chunk),
                                          keywords, acronyms)
         ELSE IF Len(filtered_chunks) < 5 /\ chunk.distance < 10
         THEN first_pass_without_keywords(Tail(chunks), Append(filtered_chunks, chunk),
                                          keywords, acronyms)
         ELSE first_pass_without_keywords(Tail(chunks), filtered_chunks,
                                          keywords, acronyms)

\* the first pass that lets a sixth unmatched candidate in
RECURSIVE first_pass_six(_, _, _, _)
first_pass_six(chunks, filtered_chunks, keywords, acronyms) ==
    IF chunks = <<>> THEN filtered_chunks
    ELSE LET chunk == Head(chunks) IN
         IF \/ keyword_matches(chunk, keywords) > 0
            \/ acronym_matches(chunk, acronyms) > 0
            \/ chunk.distance < 9
         THEN first_pass_six(Tail(chunks), Append(filtered_chunks, chunk), keywords, acronyms)
         ELSE IF Len(filtered_chunks) <= 5 /\ chunk.distance < 10
         THEN first_pass_six(Tail(chunks), Append(filtered_chunks, chunk), keywords, acronyms)
         ELSE first_pass_six(Tail(chunks), filtered_chunks, keywords, acronyms)

\* lines 815-827: the first pass over the candidates
RECURSIVE first_pass(_, _, _, _)
first_pass(chunks, filtered_chunks, keywords, acronyms) ==
    IF chunks = <<>> THEN filtered_chunks
    ELSE LET chunk == Head(chunks) IN
         IF \/ keyword_matches(chunk, keywords) > 0
            \/ acronym_matches(chunk, acronyms) > 0
            \/ chunk.distance < 9
         THEN first_pass(Tail(chunks), Append(filtered_chunks, chunk), keywords, acronyms)
         ELSE IF Len(filtered_chunks) < 5 /\ chunk.distance < 10
         THEN first_pass(Tail(chunks), Append(filtered_chunks, chunk), keywords, acronyms)
         ELSE first_pass(Tail(chunks), filtered_chunks, keywords, acronyms)

\* lines 832-837: re-scan of the best 15 for keyword matches
RECURSIVE keyword_rescan(_, _, _)
keyword_rescan(chunks, filtered_chunks, keywords) ==
    IF chunks = <<>> THEN filtered_chunks
    ELSE LET chunk == Head(chunks) IN
         IF ~InList(chunk, filtered_chunks) /\ keyword_matches(chunk, keywords) > 0
         THEN keyword_rescan(Tail(chunks), Append(filtered_chunks, chunk), keywords)
         ELSE keyword_rescan(Tail(chunks), filtered_chunks, keywords)

\* the append that goes on until 20 are held
RECURSIVE add_best_matches_to_twenty(_, _)
add_best_matches_to_twenty(chunks, filtered_chunks) ==
    IF chunks = <<>> THEN filtered_chunks
    ELSE LET chunk == Head(chunks) IN
         IF ~InList(chunk, filtered_chunks)
         THEN LET added == Append(filtered_chunks, chunk) IN
              IF Len(added) >= 20 THEN added
              ELSE add_best_matches_to_twenty(Tail(chunks), added)
         ELSE add_best_matches_to_twenty(Tail(chunks), filtered_chunks)

\* the append that does not skip what the list already holds
RECURSIVE add_best_matches_repeating(_, _)
add_best_matches_repeating(chunks, filtered_chunks) ==
    IF chunks = <<>> THEN filtered_chunks
    ELSE LET added == Append(filtered_chunks, Head(chunks)) IN
         IF Len(added) >= 10 THEN added
         ELSE add_best_matches_repeating(Tail(chunks), added)

\* lines 841-845: append best matches until 10 are held
RECURSIVE add_best_matches(_, _)
add_best_matches(chunks, filtered_chunks) ==
    IF chunks = <<>> THEN filtered_chunks
    ELSE LET chunk == Head(chunks) IN
         IF ~InList(chunk, filtered_chunks)
         THEN LET added == Append(filtered_chunks, chunk) IN
              IF Len(added) >= 10 THEN added
              ELSE add_best_matches(Tail(chunks), added)
         ELSE add_best_matches(Tail(chunks), filtered_chunks)

\* lines 830-845
backfill(candidates, filtered_chunks, keywords) ==
    IF Len(filtered_chunks) < 3 THEN
        LET rescanned == keyword_rescan(Take(candidates, 15), filtered_chunks, keywords)
        IN IF Len(rescanned) < 5 THEN add_best_matches(candidates, rescanned)
           ELSE rescanned
    ELSE filtered_chunks

\* what the code derives from the chat input alone, tabulated per chat input
PromptFacts ==
    [p \in AllPrompts |->
        [keywords |-> question_keywords(p), acronyms |-> acronyms_of(p)]]
keywords_for(q) ==
    IF q \in AllPrompts THEN PromptFacts[q].keywords ELSE question_keywords(q)
acronyms_for(q) ==
    IF q \in AllPrompts THEN PromptFacts[q].acronyms ELSE acronyms_of(q)

\* lines 813-847
keyword_gate(q, candidates) ==
    LET keywords == keywords_for(q) IN
    IF keywords # {} THEN
        Take(backfill(candidates,
                      first_pass(candidates, <<>>, keywords, acronyms_for(q)),
                      keywords), 30)
    ELSE candidates

(***************************************************************************)
(* chat_page: quality check with adaptive threshold (lines 849-894)        *)
(***************************************************************************)
primary_threshold == 12
fallback_threshold == 18
min_chunk_text_length == 50

general_question_phrases ==
    {<<"w", "h", "a", "t", " ", "i", "s", " ", "t", "h", "i", "s">>,
     <<"w", "h", "a", "t", " ", "i", "s", " ", "t", "h", "e">>,
     <<"w", "h", "a", "t", " ", "d", "o", "e", "s", " ", "t", "h", "i", "s">>,
     <<"w", "h", "a", "t", " ", "i", "s", " ", "i", "t", " ", "a", "b", "o", "u", "t">>,
     <<"a", "b", "o", "u", "t", " ", "t", "h", "i", "s">>,
     <<"t", "e", "l", "l", " ", "m", "e", " ", "a", "b", "o", "u", "t">>,
     <<"w", "h", "a", "t", " ", "i", "s">>,
     <<"d", "e", "s", "c", "r", "i", "b", "e", " ", "t", "h", "i", "s">>,
     <<"e", "x", "p", "l", "a", "i", "n", " ", "t", "h", "i", "s">>}

is_general_question(q) == ContainsAny(lower(q), general_question_phrases)
GeneralQuestions == {p \in AllPrompts : is_general_question(p)}
is_general(q) ==
    IF q \in AllPrompts THEN q \in GeneralQuestions ELSE is_general_question(q)

BelowThreshold(chunks, threshold) ==
    SelectSeq(chunks, LAMBDA chunk : chunk.distance < threshold)

\* good_chunks whose fallback test is <= instead of <
good_chunks_inclusive(q, candidates) ==
    LET primary == BelowThreshold(candidates, primary_threshold) IN
    IF primary # <<>> THEN primary
    ELSE BelowThreshold(candidates, fallback_threshold + 1)

\* lines 855-873
good_chunks(q, candidates) ==
    LET primary == BelowThreshold(candidates, primary_threshold) IN
    IF primary # <<>> THEN primary
    ELSE IF is_general(q)
        THEN BelowThreshold(candidates, fallback_threshold)
        ELSE BelowThreshold(candidates, fallback_threshold)

\* lines 874-888: the warning and early return for a specific question
low_confidence_return(q, candidates) ==
    /\ candidates # <<>>
    /\ good_chunks(q, candidates) = <<>>
    /\ ~is_general(q)

\* quality_filter that keeps the short chunks instead of the long ones
quality_filter_short(q, candidates) ==
    IF candidates # <<>> THEN
        Take(SelectSeq(good_chunks(q, candidates),
                       LAMBDA chunk : Len(chunk_text(chunk)) <= min_chunk_text_length),
             15)
    ELSE <<>>

\* quality_filter that applies the length filter to all candidates, not to
\* the good ones
quality_filter_unthresholded(q, candidates) ==
    IF candidates # <<>> THEN
        Take(SelectSeq(candidates,
                       LAMBDA chunk : Len(chunk_text(chunk)) > min_chunk_text_length),
             15)
    ELSE <<>>

\* line 891: the good chunks that are not too short
long_good_chunks(q, candidates) ==
    SelectSeq(good_chunks(q, candidates),
              LAMBDA chunk : Len(chunk_text(chunk)) > min_chunk_text_length)

\* lines 850-894: the context left after thresholding, length filter and cap
quality_filter(q, candidates) ==
    IF candidates # <<>> THEN Take(long_good_chunks(q, candidates), 15)
    ELSE <<>>

\* the test that lets an empty context through
has_relevant_chunks_always(chunks) == TRUE

\* line 912: `if not similar_chunks` chooses the canned response
has_relevant_chunks(chunks) == chunks # <<>>

\* the context handed over in the order the cap left it
sorted_for_synthesis_as_left(chunks) == chunks

\* line 917: sorted(similar_chunks, key=distance) before the synthesizer
sorted_for_synthesis(chunks) == sort_by_distance(chunks)

(***************************************************************************)
(* generate_rag_response: context selection and labelling (lines 27-79)    *)
(***************************************************************************)
complete_steps_phrases ==
    {<<"c", "o", "m", "p", "l", "e", "t", "e", " ", "s", "t", "e", "p", "s">>,
     <<"a", "l", "l", " ", "s", "t", "e", "p", "s">>,
     <<"f", "u", "l", "l", " ", "s", "t", "e", "p", "s">>,
     <<"e", "n", "t", "i", "r", "e", " ", "p", "r", "o", "c", "e", "s", "s">>,
     <<"c", "o", "m", "p", "l", "e", "t", "e", " ", "p", "r", "o", "c", "e", "s", "s">>,
     <<"a", "l", "l", " ", "t", "h", "e", " ", "s", "t", "e", "p", "s">>,
     <<"s", "t", "e", "p", " ", "b", "y", " ", "s", "t", "e", "p">>}

sql_question_keywords ==
    {<<"s", "q", "l">>,
     <<"c", "r", "e", "a", "t", "e", " ", "u", "s", "e", "r">>,
     <<"g", "r", "a", "n", "t">>,
     <<"d", "a", "t", "a", "b", "a", "s", "e", " ", "u", "s", "e", "r">>,
     <<"s", "c", "h", "e", "m", "a">>,
     <<"p", "r", "i", "v", "i", "l", "e", "g", "e", "s">>,
     <<"m", "i", "n", "i", "m", "a", "l", "l", "y", " ", "p", "r", "i", "v", "i", "l", "e", "g", "e", "d">>,
     <<"s", "q", "l", " ", "c", "o", "m", "m", "a", "n", "d", "s">>}

context_sql_keywords ==
    {<<"c", "r", "e", "a", "t", "e", " ", "u", "s", "e", "r">>,
     <<"g", "r", "a", "n", "t">>,
     <<"i", "d", "e", "n", "t", "i", "f", "i", "e", "d", " ", "b", "y">>,
     <<"t", "a", "b", "l", "e", "s", "p", "a", "c", "e">>,
     <<"a", "l", "t", "e", "r", " ", "u", "s", "e", "r">>,
     <<"s", "q", "l", "*", "p", "l", "u", "s">>}

is_complete_steps_question(q) == ContainsAny(lower(q), complete_steps_phrases)
is_sql_question(q) == ContainsAny(lower(q), sql_question_keywords)
is_broad_mode(q) == is_complete_steps_question(q) \/ is_sql_question(q)
BroadQuestions == {p \in AllPrompts : is_broad_mode(p)}
is_broad(q) == IF q \in AllPrompts THEN q \in BroadQuestions ELSE is_broad_mode(q)

\* line 48, tabulated per stored text
SqlTexts == {i \in DOMAIN TextTable : ContainsAny(TextTableLower[i], context_sql_keywords)}
has_sql_vocabulary(chunk) == TextIndex(chunk.chunk_id) \in SqlTexts

\* top_chunks that puts the SQL chunks last
top_chunks_sql_last(q, ctx_chunks) ==
    LET sorted_chunks == sort_by_distance(ctx_chunks) IN
    IF is_broad(q) THEN
        LET top == Take(sorted_chunks, 7)
            chunks_with_sql == SelectSeq(top, has_sql_vocabulary)
            other_chunks == SelectSeq(top, LAMBDA c : ~InList(c, chunks_with_sql))
        IN other_chunks \o chunks_with_sql
    ELSE Take(sorted_chunks, 3)

\* lines 43-54
top_chunks(q, ctx_chunks) ==
    LET sorted_chunks == sort_by_distance(ctx_chunks) IN
    IF is_broad(q) THEN
        LET top == Take(sorted_chunks, 7)
            chunks_with_sql == SelectSeq(top, has_sql_vocabulary)
            other_chunks == SelectSeq(top, LAMBDA c : ~InList(c, chunks_with_sql))
        IN chunks_with_sql \o other_chunks
    ELSE Take(sorted_chunks, 3)

\* lines 59-79: the labelled sources written into the prompt, in order
source_label(i) == IF i = 1 THEN "PRIMARY SOURCE - MOST RELEVANT" ELSE "ADDITIONAL SOURCE"

\* build_context that takes the first chunk as supplied
build_context_as_supplied(q, ctx_chunks) ==
    LET top == top_chunks(q, ctx_chunks) IN
    IF is_broad(q) THEN
        [i \in 1..Len(top) |-> [label |-> source_label(i), number |-> i, chunk |-> top[i]]]
    ELSE IF ctx_chunks # <<>> THEN
        <<[label |-> source_label(1), number |-> 1, chunk |-> ctx_chunks[1]]>>
    ELSE <<>>

build_context(q, ctx_chunks) ==
    LET top == top_chunks(q, ctx_chunks) IN
    IF is_broad(q) THEN
        [i \in 1..Len(top) |-> [label |-> source_label(i), number |-> i, chunk |-> top[i]]]
    ELSE IF top # <<>> THEN
        <<[label |-> source_label(1), number |-> 1, chunk |-> top[1]]>>
    ELSE <<>>

(***************************************************************************)
(* generate_rag_response: post-processing of the answer (lines 147-285) *)
(***************************************************************************)
\* s.split(sep) for a one-character separator
RECURSIVE split_on(_, _)
split_on(s, sep) ==
    LET idx == {i \in 1..Len(s) : s[i] = sep} IN
    IF idx = {} THEN <<s>>
    ELSE LET i == SetMin(idx) IN
         <<SubSeq(s, 1, i - 1)>> \o split_on(SubSeq(s, i + 1, Len(s)), sep)

\* '\n'.join(lines)
RECURSIVE join_lines(_)
join_lines(lines) ==
    IF lines = <<>> THEN <<>>
    ELSE IF Len(lines) = 1 THEN lines[1]
    ELSE lines[1] \o <<NL>> \o join_lines(Tail(lines))

\* s.rfind(sub), 0-based, for sub in s
rfind(s, sub) ==
    SetMax({i \in 0..(Len(s) - Len(sub)) : SubSeq(s, i + 1, i + Len(sub)) = sub})

instruction_patterns_start ==
    <<<<"U", "s", "e", " ", "a", " ", "c", "o", "d", "e", " ", "b", "l", "o", "c", "k">>,
      <<"K", "e", "e", "p", " ", "S", "Q", "L", " ", "s", "t", "a", "t", "e", "m", "e", "n", "t", "s">>,
      <<"D", "o", "n", "'", "t", " ", "b", "r", "e", "a", "k", " ", "S", "Q", "L">>,
      <<"I", "n", "c", "l", "u", "d", "e", " ", "a", "l", "l", " ", "c", "o", "m", "m", "a", "n", "d", "s">>,
      <<"I", "n", "c", "l", "u", "d", "e", " ", "A", "L", "L", " ", "c", "o", "m", "m", "a", "n", "d", "s">>,
      <<"A", "n", "s", "w", "e", "r", " ", "f", "o", "r", "m", "a", "t", " ", "f", "o", "r">>,
      <<"C", "R", "I", "T", "I", "C", "A", "L", " ", "I", "N", "S", "T", "R", "U", "C", "T", "I", "O", "N", "S", ":">>,
      <<"P", "R", "I", "M", "A", "R", "Y", " ", "S", "O", "U", "R", "C", "E", ":">>,
      <<"A", "D", "D", "I", "T", "I", "O", "N", "A", "L", " ", "S", "O", "U", "R", "C", "E">>,
      <<"D", "o", " ", "N", "O", "T", " ", "r", "e", "p", "e", "a", "t">>,
      <<"S", "t", "a", "r", "t", " ", "y", "o", "u", "r", " ", "a", "n", "s", "w", "e", "r">>,
      <<"P", "r", "o", "v", "i", "d", "e", " ", "a", " ", "c", "l", "e", "a", "r", ",", " ", "c", "o", "m", "p", "l", "e", "t", "e", " ", "a", "n", "s", "w", "e", "r">>>>

fragment_words ==
    {<<"f", "o", "r", "m", "a", "t">>,
     <<"c", "o", "m", "m", "a", "n", "d">>,
     <<"i", "n", "s", "t", "r", "u", "c", "t", "i", "o", "n">>,
     <<"s", "o", "u", "r", "c", "e">>,
     <<"a", "n", "s", "w", "e", "r">>}

end_patterns ==
    <<<<"<", "<", "v", "a", "r", "i", "a", "b", "l", "e", ">", ">", " ", "T", "h", "e", " ", "s", "o", "u", "r", "c", "e", " ", "d", "o", "e", "s", " ", "n", "o", "t", " ", "p", "r", "o", "v", "i", "d", "e">>,
      <<"<", "<", "v", "a", "r", "i", "a", "b", "l", "e", ">", ">">>,
      <<"T", "h", "e", " ", "s", "o", "u", "r", "c", "e", " ", "d", "o", "e", "s", " ", "n", "o", "t", " ", "p", "r", "o", "v", "i", "d", "e">>,
      <<"I", " ", "w", "i", "l", "l", " ", "n", "o", "t", " ", "i", "n", "c", "l", "u", "d", "e">>,
      <<"D", "o", " ", "N", "O", "T", " ", "r", "e", "p", "e", "a", "t">>,
      <<"C", "R", "I", "T", "I", "C", "A", "L", " ", "I", "N", "S", "T", "R", "U", "C", "T", "I", "O", "N", "S">>,
      <<"A", "n", "s", "w", "e", "r", " ", "f", "o", "r", "m", "a", "t">>,
      <<"P", "R", "I", "M", "A", "R", "Y", " ", "S", "O", "U", "R", "C", "E">>,
      <<"A", "D", "D", "I", "T", "I", "O", "N", "A", "L", " ", "S", "O", "U", "R", "C", "E">>,
      <<"I", "N", "S", "T", "R", "U", "C", "T", "I", "O", "N", "S", ":">>,
      <<NL, NL, "I", "f", " ", "y", "o", "u", " ", "a", "r", "e", " ", "r", "u", "n", "n", "i", "n", "g", " ", "O", "r", "a", "c", "l", "e", " ", "E", "-", "B", "u", "s", "i", "n", "e", "s", "s", " ", "S", "u", "i", "t", "e", " ", "R", "e", "l", "e", "a", "s", "e", " ", "1", "2", ".", "2">>,
      <<NL, "T", "o", " ", "c", "r", "e", "a", "t", "e", " ", "t", "h", "e", " ", "w", "o", "r", "k", "s", "p", "a", "c", "e">>,
      <<NL, "E", "n", "a", "b", "l", "e", " ", "E", "d", "i", "t", "i", "o", "n", "-", "B", "a", "s", "e", "d", " ", "R", "e", "d", "e", "f", "i", "n", "i", "t", "i", "o", "n">>,
      <<NL, "C", "r", "e", "a", "t", "e", " ", "a", " ", "w", "o", "r", "k", "s", "p", "a", "c", "e">>,
      <<NL, "A", "l", "t", "e", "r", " ", "t", "h", "e", " ", "A", "P", "E", "X", " ", "s", "c", "h", "e", "m", "a">>,
      <<NL, "R", "u", "n", " ", "t", "h", "e", " ", "a", "p", "p", "l", "i", "c", "a", "t", "i", "o", "n">>,
      <<NL, "C", "l", "i", "c", "k", " ", "U", "s", "i", "n", "g", " ", "R", "e", "s", "p", "o", "n", "s", "i", "b", "i", "l", "i", "t", "i", "e", "s">>>>

short_instruction_words ==
    {<<"f", "o", "r", "m", "a", "t">>,
     <<"c", "o", "m", "m", "a", "n", "d">>,
     <<"i", "n", "s", "t", "r", "u", "c", "t", "i", "o", "n">>,
     <<"s", "o", "u", "r", "c", "e">>,
     <<"a", "n", "s", "w", "e", "r">>,
     <<"p", "r", "o", "v", "i", "d", "e">>,
     <<"i", "n", "c", "l", "u", "d", "e">>}

answer_sql_keywords ==
    {<<"c", "r", "e", "a", "t", "e", " ", "u", "s", "e", "r">>,
     <<"i", "d", "e", "n", "t", "i", "f", "i", "e", "d", " ", "b", "y">>,
     <<"d", "e", "f", "a", "u", "l", "t", " ", "t", "a", "b", "l", "e", "s", "p", "a", "c", "e">>,
     <<"g", "r", "a", "n", "t">>,
     <<"a", "l", "t", "e", "r", " ", "u", "s", "e", "r">>,
     <<"c", "o", "n", "n", "e", "c", "t", " ", "t", "o">>,
     <<"s", "q", "l", "*", "p", "l", "u", "s">>}

sql_fix_triggers ==
    {<<"c", "r", "e", "a", "t", "e", " ", "u", "s", "e", "r">>,
     <<"g", "r", "a", "n", "t">>,
     <<"i", "d", "e", "n", "t", "i", "f", "i", "e", "d", " ", "b", "y">>}

variable_marker == <<"<", "<", "v", "a", "r", "i", "a", "b", "l", "e", ">", ">">>
\* the backquote character, which a TLA+ string cannot hold
BackQuote == "backquote"
code_fence == <<BackQuote, BackQuote, BackQuote>>

\* line 175
is_instruction(line) ==
    ContainsAny(strip(line), Range(instruction_patterns_start))
\* lines 178-179
is_fragment(line) ==
    Len(strip(line)) < 50 /\ ContainsAny(lower(strip(line)), fragment_words)

\* the loop that goes on skipping echoes after the first content line
RECURSIVE strip_every_echo(_, _)
strip_every_echo(lines, skip_until_content) ==
    IF lines = <<>> THEN <<>>
    ELSE LET line == Head(lines) IN
         IF is_instruction(line) \/ is_fragment(line)
         THEN strip_every_echo(Tail(lines), skip_until_content)
         ELSE LET skip == IF strip(line) # <<>> /\ ~is_instruction(line)
                              THEN FALSE ELSE skip_until_content
              IN (IF ~skip THEN <<line>> ELSE <<>>)
                 \o strip_every_echo(Tail(lines), skip)

\* lines 172-189
RECURSIVE strip_leading_echo(_, _)
strip_leading_echo(lines, skip_until_content) ==
    IF lines = <<>> THEN <<>>
    ELSE LET line == Head(lines) IN
         IF (is_instruction(line) \/ is_fragment(line)) /\ skip_until_content
         THEN strip_leading_echo(Tail(lines), skip_until_content)
         ELSE LET skip == IF strip(line) # <<>> /\ ~is_instruction(line)
                              THEN FALSE ELSE skip_until_content
              IN (IF ~skip THEN <<line>> ELSE <<>>)
                 \o strip_leading_echo(Tail(lines), skip)

\* lines 167-191
clean_start(ans) ==
    strip(join_lines(strip_leading_echo(split_on(ans, NL), TRUE)))

\* lines 217-223: cut at the last occurrence of the first end pattern found
\* in the latter half of the answer
RECURSIVE cut_end_patterns(_, _)
cut_end_patterns(ans, patterns) ==
    IF patterns = <<>> THEN ans
    ELSE LET pattern == Head(patterns) IN
         IF Contains(ans, pattern) /\ ~Contains(pattern, variable_marker)
            /\ rfind(ans, pattern) * 2 > Len(ans)
         THEN strip(SubSeq(ans, 1, rfind(ans, pattern)))
         ELSE cut_end_patterns(ans, Tail(patterns))

\* lines 230-233
is_trailing_instruction(line) ==
    LET last_line == strip(line) IN
    \/ ContainsAny(last_line, Range(end_patterns))
    \/ Len(last_line) < 60 /\ ContainsAny(lower(last_line), short_instruction_words)

\* lines 227-238
RECURSIVE pop_trailing(_)
pop_trailing(answer_lines) ==
    IF answer_lines # <<>> /\ is_trailing_instruction(answer_lines[Len(answer_lines)])
    THEN pop_trailing(SubSeq(answer_lines, 1, Len(answer_lines) - 1))
    ELSE answer_lines

\* lines 226-239
clean_end(ans) ==
    strip(join_lines(pop_trailing(split_on(cut_end_patterns(ans, end_patterns), NL))))

\* line 254
is_sql_line(line) == ContainsAny(strip(lower(line)), answer_sql_keywords)

\* lines 259-262: the SQL line without a numbered-list prefix
cleaned_sql_line(line) ==
    IF strip(line) # <<>> /\ IsDigit(strip(line)[1]) /\ Contains(Take(line, 3), <<")">>)
    THEN LET parts == split_on(line, ")") IN
         strip(SubSeq(line, Len(parts[1]) + 2, Len(line)))
    ELSE line

\* the line appended when a SQL block opens (line 256)
sql_block_opening == <<>>

\* lines 251-281
RECURSIVE sql_reflow(_, _)
sql_reflow(lines, in_sql_block) ==
    IF lines = <<>> THEN (IF in_sql_block THEN <<code_fence>> ELSE <<>>)
    ELSE LET line == Head(lines) IN
         IF is_sql_line(line) THEN
             (IF ~in_sql_block THEN <<sql_block_opening>> ELSE <<>>)
             \o <<cleaned_sql_line(line)>> \o sql_reflow(Tail(lines), TRUE)
         ELSE IF in_sql_block THEN
             IF strip(line) # <<>> /\ ~startswith(strip(line), <<")">>)
             THEN <<code_fence, line>> \o sql_reflow(Tail(lines), FALSE)
             ELSE <<line>> \o sql_reflow(Tail(lines), TRUE)
         ELSE <<line>> \o sql_reflow(Tail(lines), FALSE)

\* lines 242-283
fix_sql_formatting(ans) ==
    IF ContainsAny(lower(ans), sql_fix_triggers)
    THEN join_lines(sql_reflow(split_on(ans, NL), FALSE))
    ELSE ans

\* lines 147-285, for the text of a 200 backend_reply
post_process(raw) ==
    LET ans == strip(raw) IN
    IF ans # <<>> THEN fix_sql_formatting(clean_end(clean_start(ans)))
    ELSE ans

\* the value returned by generate_rag_response: None when the backend
\* cannot be reached, raises or answers with another status than 200
\* (a one-element sequence that no text equals, so that it compares with texts)
None == <<"None">>
PostProcessed == [raw \in {<<>>, R_plain} |-> post_process(raw)]
generate_rag_response(q, ctx_chunks, backend_reply) ==
    IF backend_reply.status = "200" THEN
        IF backend_reply.response \in DOMAIN PostProcessed
            THEN PostProcessed[backend_reply.response]
            ELSE post_process(backend_reply.response)
    ELSE None

(***************************************************************************)
(* hybrid_chunking                                                         *)
(***************************************************************************)
\* the paragraph loop; yields the closed chunks and the running chunk
RECURSIVE paragraph_loop(_, _, _, _, _)
paragraph_loop(paragraphs, chunks, current_chunk, maxsz, ov) ==
    IF paragraphs = <<>> THEN [chunks |-> chunks, current_chunk |-> current_chunk]
    ELSE LET paragraph == strip(Head(paragraphs))
             rest == Tail(paragraphs)
         IN IF paragraph = <<>> THEN
                paragraph_loop(rest, chunks, current_chunk, maxsz, ov)
            ELSE IF Len(current_chunk) + Len(paragraph) > maxsz /\ current_chunk # <<>> THEN
                LET overlap_text == IF ov > 0 THEN LastChars(current_chunk, ov) ELSE <<>>
                IN paragraph_loop(rest, Append(chunks, strip(current_chunk)),
                                  overlap_text \o <<NL, NL>> \o paragraph, maxsz, ov)
            ELSE
                paragraph_loop(rest, chunks,
                               IF current_chunk # <<>>
                                   THEN current_chunk \o <<NL, NL>> \o paragraph
                                   ELSE paragraph,
                               maxsz, ov)

\* sentence_loop without the flush of the last temp_chunk (lines 205-206 left out)
RECURSIVE sentence_loop_noflush(_, _, _, _)
sentence_loop_noflush(sentences, out, temp_chunk, maxsz) ==
    IF sentences = <<>> THEN out
    ELSE LET sentence == Head(sentences)
             rest == Tail(sentences)
         IN IF Len(temp_chunk) + Len(sentence) > maxsz /\ temp_chunk # <<>> THEN
                sentence_loop_noflush(rest, Append(out, strip(temp_chunk)), sentence, maxsz)
            ELSE
                sentence_loop_noflush(rest, out,
                              IF temp_chunk # <<>> THEN temp_chunk \o <<SP>> \o sentence
                                                   ELSE sentence,
                              maxsz)

\* the sentence loop of the final safety check, for one oversized chunk
RECURSIVE sentence_loop(_, _, _, _)
sentence_loop(sentences, out, temp_chunk, maxsz) ==
    IF sentences = <<>> THEN
        IF strip(temp_chunk) # <<>> THEN Append(out, strip(temp_chunk)) ELSE out
    ELSE LET sentence == Head(sentences)
             rest == Tail(sentences)
         IN IF Len(temp_chunk) + Len(sentence) > maxsz /\ temp_chunk # <<>> THEN
                sentence_loop(rest, Append(out, strip(temp_chunk)), sentence, maxsz)
            ELSE
                sentence_loop(rest, out,
                              IF temp_chunk # <<>> THEN temp_chunk \o <<SP>> \o sentence
                                                   ELSE sentence,
                              maxsz)

RECURSIVE safety_split(_, _)
safety_split(chunks, maxsz) ==
    IF chunks = <<>> THEN <<>>
    ELSE LET chunk == Head(chunks) IN
         (IF Len(chunk) <= maxsz THEN <<chunk>>
          ELSE sentence_loop(split_sentences(chunk), <<>>, <<>>, maxsz))
         \o safety_split(Tail(chunks), maxsz)

\* hybrid_chunking that strips a small text before returning it
hybrid_chunking_stripsmall(t, target, maxsz, ov) ==
    IF t = <<>> \/ Len(t) <= target THEN (IF t # <<>> THEN <<strip(t)>> ELSE <<>>)
    ELSE LET r == paragraph_loop(split_paragraphs(t), <<>>, <<>>, maxsz, ov)
             chunks == IF strip(r.current_chunk) # <<>>
                           THEN Append(r.chunks, strip(r.current_chunk))
                           ELSE r.chunks
         IN safety_split(chunks, maxsz)

hybrid_chunking(t, target, maxsz, ov) ==
    IF t = <<>> \/ Len(t) <= target THEN (IF t # <<>> THEN <<t>> ELSE <<>>)
    ELSE LET r == paragraph_loop(split_paragraphs(t), <<>>, <<>>, maxsz, ov)
             chunks == IF strip(r.current_chunk) # <<>>
                           THEN Append(r.chunks, strip(r.current_chunk))
                           ELSE r.chunks
         IN safety_split(chunks, maxsz)

(***************************************************************************)
(* Chunker specification: Init draws a text and the three size parameters, *)
(* ChunkCall applies hybrid_chunking to them.  The sizes are configuration *)
(* with target_size <= max_size (1500 and 2000 in the source).             *)
(***************************************************************************)
Texts == UNION {[1..n -> Chars] : n \in 0..MaxTextLen}

ChunkIdle ==
    /\ text = <<>>
    /\ target_size = 1
    /\ max_size = 1
    /\ overlap = 0
    /\ final_chunks = <<>>
    /\ ck_pc = "idle"

\* nothing gated or filtered yet
GateIdle ==
    /\ gating = "none"
    /\ first_pass_chunks = <<>>
    /\ rescan_chunks = <<>>
    /\ gated_chunks = <<>>
    /\ uncapped_chunks = <<>>

ChatIdle ==
    /\ messages = <<>>
    /\ prompt = <<>>
    /\ query_embedding = None
    /\ original_embedding = None
    /\ chunks_expanded = <<>>
    /\ chunks_original = <<>>
    /\ similar_chunks = <<>>
    /\ context = <<>>
    /\ outcome = "none"
    /\ embedding_calls = 0
    /\ search_calls = 0
    /\ generate_calls = 0
    /\ response = None
    /\ context_hints = <<>>
    /\ query_hints = <<>>
    /\ expanded_query = <<>>
    /\ GateIdle
    /\ chat_pc = "idle"

SynthIdle ==
    /\ question = <<>>
    /\ context_chunks = <<>>
    /\ prompt_context = <<>>
    /\ answer = None
    /\ synth_pc = "idle"
    /\ post_calls = 0
    /\ cleaned_lines = <<>>

NoReply == [status |-> "none"]

IngestIdle ==
    /\ batch_kind = "none"
    /\ uploaded_files = <<>>
    /\ item_index = 0
    /\ successful_files = 0
    /\ failed_files = 0
    /\ file_status = <<>>
    /\ collection = <<>>
    /\ store_calls = 0
    /\ ingest_pc = "idle"

InitChunk ==
    /\ text \in Texts
    /\ target_size \in 1..MaxTarget
    /\ max_size \in target_size..MaxMax
    /\ overlap \in 0..MaxOverlap
    /\ final_chunks = <<>>
    /\ ck_pc = "input"
    /\ ChatIdle
    /\ SynthIdle
    /\ IngestIdle
    /\ reply = NoReply

ChunkCall ==
    /\ ck_pc = "input"
    /\ final_chunks' = hybrid_chunking(text, target_size, max_size, overlap)
    /\ ck_pc' = "done"
    /\ UNCHANGED <<text, target_size, max_size, overlap>>
    /\ UNCHANGED <<chat_vars, synth_vars, reply, ingest_vars>>

NextChunk == ChunkCall

(***************************************************************************)
(* chat_page: query expansion (lines 678-771)                              *)
(***************************************************************************)
UserTurn(content) == [role |-> "user", content |-> content]
AssistantTurn(content) == [role |-> "assistant", content |-> content]

\* the words left out of the context keywords (line 692)
context_stop_words ==
    {<<"w", "h", "a", "t">>,
     <<"h", "o", "w">>,
     <<"w", "h", "e", "n">>,
     <<"w", "h", "e", "r", "e">>,
     <<"w", "h", "i", "c", "h">>,
     <<"a", "b", "o", "u", "t">>,
     <<"w", "i", "l", "l">>,
     <<"d", "o", "e", "s">>,
     <<"t", "h", "i", "s">>,
     <<"t", "h", "a", "t">>,
     <<"t", "h", "e">>,
     <<"a", "n", "d">>,
     <<"f", "o", "r">>,
     <<"w", "i", "t", "h">>}

\* the history that takes every turn twice
append_turn_twice(history, turn) == Append(Append(history, turn), turn)

\* the history that keeps a turn at the wrong end
append_turn_in_front(history, turn) == <<turn>> \o history

\* st.session_state.messages.append(turn)
append_turn(history, turn) == Append(history, turn)

\* the whole history instead of its last four turns
recent_messages_unbounded(history) == history

\* st.session_state.messages[-4:]
recent_messages(history) ==
    SubSeq(history, IF Len(history) > 4 THEN Len(history) - 3 ELSE 1, Len(history))

\* lines 688-700: the key terms of one turn
turn_keywords(msg) ==
    IF msg.role = "user" THEN
        SelectSeq(split_words(lower(msg.content)),
                  LAMBDA w : Len(w) > 4 /\ w \notin context_stop_words)
    ELSE IF msg.role = "assistant" THEN
        LET acronyms == find_acronyms(Take(msg.content, 200))
        IN [i \in 1..Len(acronyms) |-> lower(acronyms[i])]
    ELSE <<>>

\* lines 683-700
RECURSIVE context_keywords(_)
context_keywords(turns) ==
    IF turns = <<>> THEN <<>>
    ELSE turn_keywords(Head(turns)) \o context_keywords(Tail(turns))

\* line 706
relevant_context(q, history) ==
    LET prompt_lower == lower(q)
        words == split_words(prompt_lower)
    IN SelectSeq(context_keywords(recent_messages(history)),
                 LAMBDA kw : \/ Contains(prompt_lower, kw)
                             \/ \E i \in 1..Len(words) : Contains(words[i], kw))

\* lines 711-716
\* triggers: 'where', 'how to access', 'navigate', 'go to', 'find'
\* hints: 'menu navigation', 'how to access', 'where to find', 'location in
\*   menu', 'screen navigation', 'menu path', 'access path', 'where to
\*   navigate'
rule_navigation ==
    [triggers |-> <<
        <<"w", "h", "e", "r", "e">>,
        <<"h", "o", "w", " ", "t", "o", " ", "a", "c", "c", "e", "s", "s">>,
        <<"n", "a", "v", "i", "g", "a", "t", "e">>,
        <<"g", "o", " ", "t", "o">>,
        <<"f", "i", "n", "d">>>>,
     hints |-> <<
        <<"m", "e", "n", "u", " ", "n", "a", "v", "i", "g", "a", "t", "i",
          "o", "n">>,
        <<"h", "o", "w", " ", "t", "o", " ", "a", "c", "c", "e", "s", "s">>,
        <<"w", "h", "e", "r", "e", " ", "t", "o", " ", "f", "i", "n", "d">>,
        <<"l", "o", "c", "a", "t", "i", "o", "n", " ", "i", "n", " ", "m",
          "e", "n", "u">>,
        <<"s", "c", "r", "e", "e", "n", " ", "n", "a", "v", "i", "g", "a",
          "t", "i", "o", "n">>,
        <<"m", "e", "n", "u", " ", "p", "a", "t", "h">>,
        <<"a", "c", "c", "e", "s", "s", " ", "p", "a", "t", "h">>,
        <<"w", "h", "e", "r", "e", " ", "t", "o", " ", "n", "a", "v", "i",
          "g", "a", "t", "e">>>>]

\* lines 719-729
\* triggers: 'create user', 'create schema', 'database user', 'privileged
\*   user', 'minimally privileged', 'schema creation', 'database schema', 'SQL
\*   user', 'grant privileges', 'create database user'
\* hints: 'database schema', 'SQL create user', 'grant privileges', 'database
\*   user creation', 'SQL commands', 'SYSDBA', 'create user identified by',
\*   'default tablespace', 'grant create view', 'connect to database',
\*   'SQL*Plus', 'database server'
rule_database_user ==
    [triggers |-> <<
        <<"c", "r", "e", "a", "t", "e", " ", "u", "s", "e", "r">>,
        <<"c", "r", "e", "a", "t", "e", " ", "s", "c", "h", "e", "m", "a">>,
        <<"d", "a", "t", "a", "b", "a", "s", "e", " ", "u", "s", "e", "r">>,
        <<"p", "r", "i", "v", "i", "l", "e", "g", "e", "d", " ", "u", "s",
          "e", "r">>,
        <<"m", "i", "n", "i", "m", "a", "l", "l", "y", " ", "p", "r", "i",
          "v", "i", "l", "e", "g", "e", "d">>,
        <<"s", "c", "h", "e", "m", "a", " ", "c", "r", "e", "a", "t", "i",
          "o", "n">>,
        <<"d", "a", "t", "a", "b", "a", "s", "e", " ", "s", "c", "h", "e",
          "m", "a">>,
        <<"S", "Q", "L", " ", "u", "s", "e", "r">>,
        <<"g", "r", "a", "n", "t", " ", "p", "r", "i", "v", "i", "l", "e",
          "g", "e", "s">>,
        <<"c", "r", "e", "a", "t", "e", " ", "d", "a", "t", "a", "b", "a",
          "s", "e", " ", "u", "s", "e", "r">>>>,
     hints |-> <<
        <<"d", "a", "t", "a", "b", "a", "s", "e", " ", "s", "c", "h", "e",
          "m", "a">>,
        <<"S", "Q", "L", " ", "c", "r", "e", "a", "t", "e", " ", "u", "s",
          "e", "r">>,
        <<"g", "r", "a", "n", "t", " ", "p", "r", "i", "v", "i", "l", "e",
          "g", "e", "s">>,
        <<"d", "a", "t", "a", "b", "a", "s", "e", " ", "u", "s", "e", "r",
          " ", "c", "r", "e", "a", "t", "i", "o", "n">>,
        <<"S", "Q", "L", " ", "c", "o", "m", "m", "a", "n", "d", "s">>,
        <<"S", "Y", "S", "D", "B", "A">>,
        <<"c", "r", "e", "a", "t", "e", " ", "u", "s", "e", "r", " ", "i",
          "d", "e", "n", "t", "i", "f", "i", "e", "d", " ", "b", "y">>,
        <<"d", "e", "f", "a", "u", "l", "t", " ", "t", "a", "b", "l", "e",
          "s", "p", "a", "c", "e">>,
        <<"g", "r", "a", "n", "t", " ", "c", "r", "e", "a", "t", "e", " ",
          "v", "i", "e", "w">>,
        <<"c", "o", "n", "n", "e", "c", "t", " ", "t", "o", " ", "d", "a",
          "t", "a", "b", "a", "s", "e">>,
        <<"S", "Q", "L", "*", "P", "l", "u", "s">>,
        <<"d", "a", "t", "a", "b", "a", "s", "e", " ", "s", "e", "r", "v",
          "e", "r">>>>]

\* lines 732-739
\* triggers: 'connect to', 'database connection', 'database server', 'how to
\*   connect', 'database access', 'SQL connection'
\* hints: 'SQL*Plus', 'database connection', 'connect as SYS', 'SYSDBA role',
\*   'connection string', 'database server', 'SQL connection'
rule_connection ==
    [triggers |-> <<
        <<"c", "o", "n", "n", "e", "c", "t", " ", "t", "o">>,
        <<"d", "a", "t", "a", "b", "a", "s", "e", " ", "c", "o", "n", "n",
          "e", "c", "t", "i", "o", "n">>,
        <<"d", "a", "t", "a", "b", "a", "s", "e", " ", "s", "e", "r", "v",
          "e", "r">>,
        <<"h", "o", "w", " ", "t", "o", " ", "c", "o", "n", "n", "e", "c",
          "t">>,
        <<"d", "a", "t", "a", "b", "a", "s", "e", " ", "a", "c", "c", "e",
          "s", "s">>,
        <<"S", "Q", "L", " ", "c", "o", "n", "n", "e", "c", "t", "i", "o",
          "n">>>>,
     hints |-> <<
        <<"S", "Q", "L", "*", "P", "l", "u", "s">>,
        <<"d", "a", "t", "a", "b", "a", "s", "e", " ", "c", "o", "n", "n",
          "e", "c", "t", "i", "o", "n">>,
        <<"c", "o", "n", "n", "e", "c", "t", " ", "a", "s", " ", "S", "Y",
          "S">>,
        <<"S", "Y", "S", "D", "B", "A", " ", "r", "o", "l", "e">>,
        <<"c", "o", "n", "n", "e", "c", "t", "i", "o", "n", " ", "s", "t",
          "r", "i", "n", "g">>,
        <<"d", "a", "t", "a", "b", "a", "s", "e", " ", "s", "e", "r", "v",
          "e", "r">>,
        <<"S", "Q", "L", " ", "c", "o", "n", "n", "e", "c", "t", "i", "o",
          "n">>>>]

\* lines 742-747
\* triggers: 'what is this', 'what is the', 'what does this', 'what is it
\*   about', 'about this', 'tell me about'
\* hints: 'overview', 'summary', 'introduction', 'executive summary',
\*   'document purpose', 'what is', 'description', 'about', 'white paper',
\*   'document content', 'main topic', 'subject'
rule_about ==
    [triggers |-> <<
        <<"w", "h", "a", "t", " ", "i", "s", " ", "t", "h", "i", "s">>,
        <<"w", "h", "a", "t", " ", "i", "s", " ", "t", "h", "e">>,
        <<"w", "h", "a", "t", " ", "d", "o", "e", "s", " ", "t", "h", "i",
          "s">>,
        <<"w", "h", "a", "t", " ", "i", "s", " ", "i", "t", " ", "a", "b",
          "o", "u", "t">>,
        <<"a", "b", "o", "u", "t", " ", "t", "h", "i", "s">>,
        <<"t", "e", "l", "l", " ", "m", "e", " ", "a", "b", "o", "u", "t">>>>,
     hints |-> <<
        <<"o", "v", "e", "r", "v", "i", "e", "w">>,
        <<"s", "u", "m", "m", "a", "r", "y">>,
        <<"i", "n", "t", "r", "o", "d", "u", "c", "t", "i", "o", "n">>,
        <<"e", "x", "e", "c", "u", "t", "i", "v", "e", " ", "s", "u", "m",
          "m", "a", "r", "y">>,
        <<"d", "o", "c", "u", "m", "e", "n", "t", " ", "p", "u", "r", "p",
          "o", "s", "e">>,
        <<"w", "h", "a", "t", " ", "i", "s">>,
        <<"d", "e", "s", "c", "r", "i", "p", "t", "i", "o", "n">>,
        <<"a", "b", "o", "u", "t">>,
        <<"w", "h", "i", "t", "e", " ", "p", "a", "p", "e", "r">>,
        <<"d", "o", "c", "u", "m", "e", "n", "t", " ", "c", "o", "n", "t",
          "e", "n", "t">>,
        <<"m", "a", "i", "n", " ", "t", "o", "p", "i", "c">>,
        <<"s", "u", "b", "j", "e", "c", "t">>>>]

\* lines 749-750
\* triggers: 'what', 'explain', 'describe', 'tell me about'
\* hints: 'information details explanation'
rule_explanation ==
    [triggers |-> <<
        <<"w", "h", "a", "t">>,
        <<"e", "x", "p", "l", "a", "i", "n">>,
        <<"d", "e", "s", "c", "r", "i", "b", "e">>,
        <<"t", "e", "l", "l", " ", "m", "e", " ", "a", "b", "o", "u", "t">>>>,
     hints |-> <<
        <<"i", "n", "f", "o", "r", "m", "a", "t", "i", "o", "n", " ", "d",
          "e", "t", "a", "i", "l", "s", " ", "e", "x", "p", "l", "a", "n",
          "a", "t", "i", "o", "n">>>>]

\* lines 752-753
\* triggers: 'how', 'steps', 'process', 'procedure'
\* hints: 'steps procedure process method'
rule_procedure ==
    [triggers |-> <<
        <<"h", "o", "w">>,
        <<"s", "t", "e", "p", "s">>,
        <<"p", "r", "o", "c", "e", "s", "s">>,
        <<"p", "r", "o", "c", "e", "d", "u", "r", "e">>>>,
     hints |-> <<
        <<"s", "t", "e", "p", "s", " ", "p", "r", "o", "c", "e", "d", "u",
          "r", "e", " ", "p", "r", "o", "c", "e", "s", "s", " ", "m", "e",
          "t", "h", "o", "d">>>>]

\* lines 756-761
\* triggers: 'aidp', 'ai data platform', 'oracle ai data platform'
\* hints: 'AI Data Platform', 'AIDP', 'Oracle AI Data Platform', 'AI Data
\*   Platform Workbench', 'AIDP Units', 'OCPU', 'memory', 'compute cluster',
\*   'pricing', 'cost', 'help', 'benefits', 'features'
rule_aidp ==
    [triggers |-> <<
        <<"a", "i", "d", "p">>,
        <<"a", "i", " ", "d", "a", "t", "a", " ", "p", "l", "a", "t", "f",
          "o", "r", "m">>,
        <<"o", "r", "a", "c", "l", "e", " ", "a", "i", " ", "d", "a", "t",
          "a", " ", "p", "l", "a", "t", "f", "o", "r", "m">>>>,
     hints |-> <<
        <<"A", "I", " ", "D", "a", "t", "a", " ", "P", "l", "a", "t", "f",
          "o", "r", "m">>,
        <<"A", "I", "D", "P">>,
        <<"O", "r", "a", "c", "l", "e", " ", "A", "I", " ", "D", "a", "t",
          "a", " ", "P", "l", "a", "t", "f", "o", "r", "m">>,
        <<"A", "I", " ", "D", "a", "t", "a", " ", "P", "l", "a", "t", "f",
          "o", "r", "m", " ", "W", "o", "r", "k", "b", "e", "n", "c", "h">>,
        <<"A", "I", "D", "P", " ", "U", "n", "i", "t", "s">>,
        <<"O", "C", "P", "U">>,
        <<"m", "e", "m", "o", "r", "y">>,
        <<"c", "o", "m", "p", "u", "t", "e", " ", "c", "l", "u", "s", "t",
          "e", "r">>,
        <<"p", "r", "i", "c", "i", "n", "g">>,
        <<"c", "o", "s", "t">>,
        <<"h", "e", "l", "p">>,
        <<"b", "e", "n", "e", "f", "i", "t", "s">>,
        <<"f", "e", "a", "t", "u", "r", "e", "s">>>>]

\* lines 764-768
\* triggers: 'apex', 'application express', 'oracle apex'
\* hints: 'Oracle APEX', 'Application Express', 'APEX', 'workspace',
\*   'application builder', 'page designer'
rule_apex ==
    [triggers |-> <<
        <<"a", "p", "e", "x">>,
        <<"a", "p", "p", "l", "i", "c", "a", "t", "i", "o", "n", " ", "e",
          "x", "p", "r", "e", "s", "s">>,
        <<"o", "r", "a", "c", "l", "e", " ", "a", "p", "e", "x">>>>,
     hints |-> <<
        <<"O", "r", "a", "c", "l", "e", " ", "A", "P", "E", "X">>,
        <<"A", "p", "p", "l", "i", "c", "a", "t", "i", "o", "n", " ", "E",
          "x", "p", "r", "e", "s", "s">>,
        <<"A", "P", "E", "X">>,
        <<"w", "o", "r", "k", "s", "p", "a", "c", "e">>,
        <<"a", "p", "p", "l", "i", "c", "a", "t", "i", "o", "n", " ", "b",
          "u", "i", "l", "d", "e", "r">>,
        <<"p", "a", "g", "e", " ", "d", "e", "s", "i", "g", "n", "e", "r">>>>]

expansion_rules ==
    <<rule_navigation, rule_database_user, rule_connection, rule_about,
      rule_explanation, rule_procedure, rule_aidp, rule_apex>>

\* any(word in prompt.lower() for word in triggers): the trigger is
\* compared as it is written in the list
rule_matches(prompt_lower, rule) ==
    \E i \in 1..Len(rule.triggers) : Contains(prompt_lower, rule.triggers[i])

\* lines 710-768: the hints of the matching rules, in the order of the rules
RECURSIVE rule_hints(_, _)
rule_hints(prompt_lower, rules) ==
    IF rules = <<>> THEN <<>>
    ELSE (IF rule_matches(prompt_lower, Head(rules)) THEN Head(rules).hints ELSE <<>>)
         \o rule_hints(prompt_lower, Tail(rules))

\* ' '.join(hints)
RECURSIVE join_hints(_)
join_hints(hints) ==
    IF hints = <<>> THEN <<>>
    ELSE IF Len(hints) = 1 THEN hints[1]
    ELSE hints[1] \o <<SP>> \o join_hints(Tail(hints))

\* the expanded query with nothing between the question and the hints
expand_query_unseparated(q, hints) ==
    IF hints # <<>> THEN q \o join_hints(hints) ELSE q

\* lines 770-771
expand_query(q, hints) ==
    IF hints # <<>> THEN q \o <<SP>> \o join_hints(hints) ELSE q

\* the expansion that scans the history as it was before the question
expansion_before_append(q, history) ==
    LET prior == SubSeq(history, 1, Len(history) - 1)
        from_context == Take(relevant_context(q, prior), 5)
        hints == from_context \o rule_hints(lower(q), expansion_rules)
    IN [context_hints |-> from_context,
        query_hints |-> hints,
        expanded_query |-> expand_query(q, hints)]

\* lines 679-771 for the chat input q, history being the session's
\* messages with the user turn of q already appended (line 671)
expansion(q, history) ==
    LET from_context == Take(relevant_context(q, history), 5)
        hints == from_context \o rule_hints(lower(q), expansion_rules)
    IN [context_hints |-> from_context,
        query_hints |-> hints,
        expanded_query |-> expand_query(q, hints)]

\* expansion of a first question, tabulated
FirstExpansions == [p \in AllPrompts |-> expansion(p, <<UserTurn(p)>>)]
expansion_of(q, history) ==
    IF q \in AllPrompts /\ history = <<UserTurn(q)>>
        THEN FirstExpansions[q] ELSE expansion(q, history)

(***************************************************************************)
(* The chat request.  Init draws the chat input and what the embedding     *)
(* service and the index answer for it; ChatInput is the handler of        *)
(* chat_page (lines 646-926) and draws the generation backend's reply.     *)
(***************************************************************************)
AskPrompts == {P_how, P_about, P_tell, P_fix}

ConnectionError == [status |-> "ConnectionError"]
HttpReply(body) == [status |-> "200", response |-> body]
AskReplies == {ConnectionError, HttpReply(<<>>), HttpReply(R_plain)}

Vector == <<"vector">>

ResultListsByLen == [n \in 0..MaxHits |-> ResultListsOfLen(n)]

InitAsk ==
    /\ ChunkIdle
    /\ SynthIdle
    /\ IngestIdle
    /\ reply = NoReply
    /\ messages = <<>>
    /\ prompt \in AskPrompts
    /\ query_embedding \in {Vector, None}
    /\ original_embedding \in {Vector, None}
    /\ \E n \in 0..MaxHits :
          /\ chunks_expanded \in
                (IF query_embedding = None THEN {<<>>} ELSE ResultListsByLen[n])
          /\ \E m \in 0..(MaxHits - n) :
                chunks_original \in
                    (IF query_embedding = None \/ original_embedding = None
                        THEN {<<>>} ELSE ResultListsByLen[m])
    /\ similar_chunks = <<>>
    /\ context = <<>>
    /\ outcome = "none"
    /\ embedding_calls = 0
    /\ search_calls = 0
    /\ generate_calls = 0
    /\ response = None
    /\ context_hints = <<>>
    /\ query_hints = <<>>
    /\ expanded_query = <<>>
    /\ GateIdle
    /\ chat_pc = "input"

\* search_similar_chunks(embedding, top_k=30): the index's nearest chunks,
\* or [] from the exception handler when the embedding is None
search_similar_chunks(embedding, nearest) ==
    IF embedding = None THEN <<>> ELSE Take(nearest, 30)

\* a response the handler shows and stores (line 922)
IsTruthy(r) == r # None /\ r # <<>>

ChatInput ==
    /\ chat_pc = "input"
    /\ chat_pc' = "done"
    /\ UNCHANGED <<prompt, query_embedding, original_embedding,
                   chunks_expanded, chunks_original>>
    /\ UNCHANGED <<ck_vars, synth_vars, ingest_vars>>
    /\ IF is_feedback_input(prompt) THEN
           \* lines 661-668
           /\ outcome' = "feedback"
           /\ UNCHANGED <<messages, similar_chunks, context, embedding_calls, search_calls,
                          generate_calls, response, reply,
                          context_hints, query_hints, expanded_query>>
           /\ UNCHANGED <<gating, first_pass_chunks, rescan_chunks,
                          gated_chunks, uncapped_chunks>>
       ELSE
           \* lines 671-771
           LET history == append_turn(messages, UserTurn(prompt))
               expanded == expansion_of(prompt, history)
           IN
           /\ context_hints' = expanded.context_hints
           /\ query_hints' = expanded.query_hints
           /\ expanded_query' = expanded.expanded_query
           \* lines 774-775
           /\ embedding_calls' = embedding_calls + 2
           /\ IF query_embedding = None THEN
                  \* lines 777-779
                  /\ outcome' = "embedding_failed"
                  /\ messages' = history
                  /\ UNCHANGED <<similar_chunks, context, search_calls,
                                 generate_calls, response, reply>>
                  /\ UNCHANGED <<gating, first_pass_chunks, rescan_chunks,
                                 gated_chunks, uncapped_chunks>>
              ELSE
                  LET merged == combine_results(
                                    search_similar_chunks(query_embedding, chunks_expanded),
                                    search_similar_chunks(original_embedding, chunks_original))
                      keywords == keywords_for(prompt)
                      first == first_pass(merged, <<>>, keywords, acronyms_for(prompt))
                      gated == keyword_gate(prompt, merged)
                      final == quality_filter(prompt, gated)
                  IN
                  /\ similar_chunks' = merged
                  /\ search_calls' = search_calls + 2
                  \* lines 813-847
                  /\ gating' = IF keywords = {} THEN "skipped"
                               ELSE IF Len(first) < 3 THEN "backfilled"
                               ELSE "first_pass"
                  /\ first_pass_chunks' = IF keywords = {} THEN <<>> ELSE first
                  /\ rescan_chunks' =
                         IF keywords # {} /\ Len(first) < 3
                             THEN keyword_rescan(Take(merged, 15), first, keywords)
                             ELSE <<>>
                  /\ gated_chunks' = gated
                  \* line 891, not reached by the early return of line 888
                  /\ uncapped_chunks' =
                         IF gated # <<>> /\ ~low_confidence_return(prompt, gated)
                             THEN long_good_chunks(prompt, gated) ELSE <<>>
                  /\ IF low_confidence_return(prompt, gated) THEN
                         \* lines 874-888
                         /\ outcome' = "low_confidence"
                         /\ messages' = history
                         /\ UNCHANGED <<context, generate_calls, response, reply>>
                     ELSE IF ~has_relevant_chunks(final) THEN
                         \* lines 913-914, 922-924
                         /\ outcome' = "no_relevant"
                         /\ response' = no_relevant_response
                         /\ messages' = append_turn(history,
                                            AssistantTurn(no_relevant_response))
                         /\ UNCHANGED <<context, generate_calls, reply>>
                     ELSE
                         \* lines 917-926
                         \E r \in AskReplies :
                             LET ctx == sorted_for_synthesis(final)
                                 resp == generate_rag_response(prompt, ctx, r)
                             IN
                             /\ reply' = r
                             /\ context' = ctx
                             /\ generate_calls' = generate_calls + 1
                             /\ response' = resp
                             /\ IF IsTruthy(resp) THEN
                                    /\ outcome' = "answered"
                                    /\ messages' = append_turn(history, AssistantTurn(resp))
                                ELSE
                                    /\ outcome' = "generation_failed"
                                    /\ messages' = history

NextAsk == ChatInput

SpecAsk == InitAsk /\ [][NextAsk]_vars

(***************************************************************************)
(* The chat request on large retrievals: up to MaxCandidates candidates,   *)
(* enough for the counts of the gating (3, 5, 10, 15, 30) and the cap      *)
(* of 15 to matter.  The candidates are the chunks base, base + stride,    *)
(* ..., the first `near` of them at one distance and the others at a       *)
(* greater one; each search returns at most 30 of them (top_k), the first  *)
(* search the nearest 30 and the second the last 30.                       *)
(***************************************************************************)
GatePrompts == {P_how, P_steps, P_about}

\* pairs of a distance and a greater one, in tenths
GateDistancePairs ==
    {<<8, 9>>, <<9, 10>>, <<10, 11>>, <<11, 13>>, <<13, 18>>}

\* first chunk and stride: the four texts in turn from the first or the
\* second, or one text throughout
CandidateTexts ==
    {<<1, 1>>, <<2, 1>>,
     <<1, Len(TextTable)>>, <<2, Len(TextTable)>>, <<3, Len(TextTable)>>}

Candidates(base, stride, n, near, pair) ==
    [k \in 1..n |-> [chunk_id |-> base + stride * (k - 1),
                     distance |-> IF k <= near THEN pair[1] ELSE pair[2]]]

CandidateLists ==
    {Candidates(t[1], t[2], n, near, pair) :
        t \in CandidateTexts, n \in 0..MaxCandidates, near \in 0..MaxNear,
        pair \in GateDistancePairs}

InitGate ==
    /\ ChunkIdle
    /\ SynthIdle
    /\ IngestIdle
    /\ reply = NoReply
    /\ messages = <<>>
    /\ prompt \in GatePrompts
    /\ query_embedding = Vector
    /\ original_embedding = Vector
    /\ \E nearest \in CandidateLists :
          /\ chunks_expanded = Take(nearest, 30)
          /\ chunks_original =
                 SubSeq(nearest,
                        IF Len(nearest) > 30 THEN Len(nearest) - 29 ELSE 1,
                        Len(nearest))
    /\ similar_chunks = <<>>
    /\ context = <<>>
    /\ outcome = "none"
    /\ embedding_calls = 0
    /\ search_calls = 0
    /\ generate_calls = 0
    /\ response = None
    /\ context_hints = <<>>
    /\ query_hints = <<>>
    /\ expanded_query = <<>>
    /\ GateIdle
    /\ chat_pc = "input"

SpecGate == InitGate /\ [][NextAsk]_vars

(***************************************************************************)
(* Input classification: chat inputs with and without a feedback phrase,   *)
(* a question word or a question mark, on an empty history and after one   *)
(* exchange.                                                               *)
(***************************************************************************)
\* 'hello'
P_hello ==
    <<"h", "e", "l", "l", "o">>

\* '  This is WRONG'
P_wrong_upper ==
    <<" ", " ", "T", "h", "i", "s", " ", "i", "s", " ", "W", "R", "O", "N",
      "G">>

\* 'fix the error?'
P_fix_question ==
    <<"f", "i", "x", " ", "t", "h", "e", " ", "e", "r", "r", "o", "r", "?">>

\* 'How to fix the error'
P_how_fix ==
    <<"H", "o", "w", " ", "t", "o", " ", "f", "i", "x", " ", "t", "h", "e",
      " ", "e", "r", "r", "o", "r">>

\* 'whatever is wrong'
P_whatever ==
    <<"w", "h", "a", "t", "e", "v", "e", "r", " ", "i", "s", " ", "w", "r",
      "o", "n", "g">>

\* 'Help'
P_help ==
    <<"H", "e", "l", "p">>

\* 'show me the pricing'
P_show ==
    <<"s", "h", "o", "w", " ", "m", "e", " ", "t", "h", "e", " ", "p", "r",
      "i", "c", "i", "n", "g">>

ClassifyPrompts ==
    {P_hello, P_wrong_upper, P_fix_question, P_how_fix, P_whatever, P_help,
     P_show, P_fix, P_how}

InitClassify ==
    /\ ChunkIdle
    /\ SynthIdle
    /\ IngestIdle
    /\ reply = NoReply
    /\ messages \in {<<>>, <<UserTurn(P_how), AssistantTurn(R_plain)>>}
    /\ prompt \in ClassifyPrompts
    /\ query_embedding \in {Vector, None}
    /\ original_embedding = query_embedding
    /\ chunks_expanded \in
          (IF query_embedding = None THEN {<<>>}
           ELSE ResultListsByLen[0] \cup ResultListsByLen[1])
    /\ chunks_original = chunks_expanded
    /\ similar_chunks = <<>>
    /\ context = <<>>
    /\ outcome = "none"
    /\ embedding_calls = 0
    /\ search_calls = 0
    /\ generate_calls = 0
    /\ response = None
    /\ context_hints = <<>>
    /\ query_hints = <<>>
    /\ expanded_query = <<>>
    /\ GateIdle
    /\ chat_pc = "input"

SpecClassify == InitClassify /\ [][NextAsk]_vars

\* 'Who is the SQL user?'
P_sql_user ==
    <<"W", "h", "o", " ", "i", "s", " ", "t", "h", "e", " ", "S", "Q", "L",
      " ", "u", "s", "e", "r", "?">>

\* 'Which steps?'
P_which_steps ==
    <<"W", "h", "i", "c", "h", " ", "s", "t", "e", "p", "s", "?">>

\* an answer whose 'AIDP' lies across the 200th character
R_long == [i \in 1..196 |-> "x"] \o <<" ", "A", "I", "D", "P", " ", "O", "C", "P", "U">>

upper_char(c) ==
    IF IsLower(c) THEN UpperCase[CHOOSE i \in 1..26 : LowerCase[i] = c] ELSE c
UpperCased(s) == [i \in 1..Len(s) |-> upper_char(s[i])]

(***************************************************************************)
(* The query expander on many inputs: chat inputs that are a trigger       *)
(* phrase in three letter cases on an empty history, and questions after   *)
(* every history of up to MaxHistory turns.  The searches find nothing.    *)
(***************************************************************************)
TriggerPhrases ==
    UNION {Range(expansion_rules[r].triggers) : r \in 1..Len(expansion_rules)}
TriggerPrompts ==
    {P_sql_user} \cup UNION {{t, lower(t), UpperCased(t)} : t \in TriggerPhrases}

FollowUpPrompts == {P_how, P_steps, P_which_steps}
HistoryTurns ==
    {UserTurn(P_steps), UserTurn(P_how), AssistantTurn(R_plain), AssistantTurn(R_long)}

\* an assistant turn follows the user turn it answers
IsHistory(h) ==
    \A i \in 1..Len(h) :
        h[i].role = "assistant" => i > 1 /\ h[i - 1].role = "user"
Histories ==
    {h \in UNION {[1..n -> HistoryTurns] : n \in 0..MaxHistory} : IsHistory(h)}

InitExpand ==
    /\ ChunkIdle
    /\ SynthIdle
    /\ IngestIdle
    /\ reply = NoReply
    /\ \/ messages = <<>> /\ prompt \in TriggerPrompts \cup {P_hello}
       \/ messages \in Histories /\ prompt \in FollowUpPrompts
    /\ query_embedding \in {Vector, None}
    /\ original_embedding = query_embedding
    /\ chunks_expanded = <<>>
    /\ chunks_original = <<>>
    /\ similar_chunks = <<>>
    /\ context = <<>>
    /\ outcome = "none"
    /\ embedding_calls = 0
    /\ search_calls = 0
    /\ generate_calls = 0
    /\ response = None
    /\ context_hints = <<>>
    /\ query_hints = <<>>
    /\ expanded_query = <<>>
    /\ GateIdle
    /\ chat_pc = "input"

SpecExpand == InitExpand /\ [][NextAsk]_vars

(***************************************************************************)
(* A chat session: chat inputs one after the other on the same history,    *)
(* and the Clear Chat button (lines 623-625).                              *)
(***************************************************************************)
SessionPrompts == {P_how, P_tell, P_fix}
SessionResults ==
    {<<>>, <<[chunk_id |-> 1, distance |-> 8]>>, <<[chunk_id |-> 1, distance |-> 18]>>}

InitSession ==
    /\ ChunkIdle
    /\ SynthIdle
    /\ IngestIdle
    /\ reply = NoReply
    /\ messages = <<>>
    /\ prompt \in SessionPrompts
    /\ query_embedding \in {Vector, None}
    /\ original_embedding = Vector
    /\ chunks_expanded \in (IF query_embedding = None THEN {<<>>} ELSE SessionResults)
    /\ chunks_original = <<>>
    /\ similar_chunks = <<>>
    /\ context = <<>>
    /\ outcome = "none"
    /\ embedding_calls = 0
    /\ search_calls = 0
    /\ generate_calls = 0
    /\ response = None
    /\ context_hints = <<>>
    /\ query_hints = <<>>
    /\ expanded_query = <<>>
    /\ GateIdle
    /\ chat_pc = "input"

\* the next chat input of the session arrives (line 646)
NewInput ==
    /\ chat_pc = "done"
    /\ Len(messages) < MaxHistory
    /\ prompt' \in SessionPrompts
    /\ query_embedding' \in {Vector, None}
    /\ original_embedding' = Vector
    /\ chunks_expanded' \in (IF query_embedding' = None THEN {<<>>} ELSE SessionResults)
    /\ chunks_original' = <<>>
    /\ similar_chunks' = <<>>
    /\ context' = <<>>
    /\ outcome' = "none"
    /\ embedding_calls' = 0
    /\ search_calls' = 0
    /\ generate_calls' = 0
    /\ response' = None
    /\ context_hints' = <<>>
    /\ query_hints' = <<>>
    /\ expanded_query' = <<>>
    /\ gating' = "none"
    /\ first_pass_chunks' = <<>>
    /\ rescan_chunks' = <<>>
    /\ gated_chunks' = <<>>
    /\ uncapped_chunks' = <<>>
    /\ reply' = NoReply
    /\ chat_pc' = "input"
    /\ UNCHANGED messages
    /\ UNCHANGED <<ck_vars, synth_vars, ingest_vars>>

\* lines 623-625
ClearChat ==
    /\ chat_pc = "done"
    /\ messages' = <<>>
    /\ UNCHANGED <<prompt, query_embedding, original_embedding, chunks_expanded,
                   chunks_original, similar_chunks, context, outcome,
                   embedding_calls, search_calls, generate_calls, response,
                   context_hints,
                   query_hints, expanded_query, gating, first_pass_chunks,
                   rescan_chunks, gated_chunks, uncapped_chunks, chat_pc>>
    /\ UNCHANGED <<ck_vars, synth_vars, ingest_vars, reply>>

NextSession == ChatInput \/ NewInput \/ ClearChat

SpecSession == InitSession /\ [][NextSession]_vars

(***************************************************************************)
(* generate_rag_response on its own.  Init draws the question, the context *)
(* and the backend's reply: either a context of up to MaxContext chunks in *)
(* any distance order with a plain reply, or a one-chunk context with a    *)
(* reply of up to MaxReplyLines lines.  GenerateCall is the function.      *)
(***************************************************************************)
SynthQuestions == {P_steps, P_how}
SynthDistances == {8, 11, 12}

\* chunks 1..n, each at any distance
SynthContexts ==
    UNION {[1..n -> SynthDistances] : n \in 0..MaxContext}
ContextOf(ds) == [i \in 1..Len(ds) |-> [chunk_id |-> i, distance |-> ds[i]]]

RECURSIVE RepliesOfLen(_)
RepliesOfLen(n) ==
    IF n = 0 THEN {<<>>}
    ELSE {Append(ls, l) : ls \in RepliesOfLen(n - 1), l \in ReplyLines}
SynthReplyBodies ==
    {join_lines(ls) : ls \in UNION {RepliesOfLen(n) : n \in 0..MaxReplyLines}}

InitSynth ==
    /\ ChunkIdle
    /\ ChatIdle
    /\ IngestIdle
    /\ \/ /\ question \in SynthQuestions
          /\ \E ds \in SynthContexts : context_chunks = ContextOf(ds)
          /\ reply \in {ConnectionError, HttpReply(R_plain)}
       \/ /\ question = P_steps
          /\ context_chunks = <<[chunk_id |-> 2, distance |-> 8]>>
          /\ \E body \in SynthReplyBodies : reply = HttpReply(body)
    /\ prompt_context = <<>>
    /\ answer = None
    /\ synth_pc = "input"
    /\ post_calls = 0
    /\ cleaned_lines = <<>>

GenerateCall ==
    /\ synth_pc = "input"
    /\ prompt_context' = build_context(question, context_chunks)
    /\ answer' = generate_rag_response(question, context_chunks, reply)
    \* line 143 is reached whatever the context is
    /\ post_calls' = post_calls + 1
    \* lines 167-189, reached with a non-empty answer of a 200 reply
    /\ cleaned_lines' =
           IF reply.status = "200" /\ strip(reply.response) # <<>>
               THEN strip_leading_echo(split_on(strip(reply.response), NL), TRUE)
               ELSE <<>>
    /\ synth_pc' = "done"
    /\ UNCHANGED <<question, context_chunks, reply>>
    /\ UNCHANGED <<ck_vars, chat_vars, ingest_vars>>

NextSynth == GenerateCall

SpecSynth == InitSynth /\ [][NextSynth]_vars

SpecChunk == InitChunk /\ [][NextChunk]_vars

(***************************************************************************)
(* Batch ingestion: process_documents (app.py 343-470) and process_urls    *)
(* (app.py 475-599).  Init draws the batch: for each item whether it       *)
(* validates and what extraction (or scraping) gives.  One action is one   *)
(* iteration of the loop; it draws which chunk embeddings succeed and      *)
(* whether the collection accepts the records.  Items of one batch have    *)
(* different names: the document name of item i is i.                      *)
(***************************************************************************)
\* TARGET_CHUNK_SIZE, MAX_CHUNK_SIZE and OVERLAP_SIZE (1500, 2000, 200),
\* scaled to the page texts below
TARGET_CHUNK_SIZE == 2
MAX_CHUNK_SIZE == 3
OVERLAP_SIZE == 1

\* stripped, non-empty page texts: one that is one chunk, one that is two
PageTexts == {<<"a", ".">>, <<"a", ".", " ", "a", ".">>}

\* pages_data of extract_text_from_document / scrape_url_to_pages
PagesOf(texts) == [i \in 1..Len(texts) |-> [page_number |-> i, text |-> texts[i]]]
PageLists == {PagesOf(texts) : texts \in UNION {[1..n -> PageTexts] : n \in 1..MaxPages}}

\* what the environment does with one item: validation verdict, then
\* extraction that raises, gives nothing, or gives pages
DocumentItems ==
    {[valid |-> FALSE, extraction |-> "none", pages |-> <<>>]}
    \cup {[valid |-> TRUE, extraction |-> e, pages |-> <<>>] : e \in {"none", "raise"}}
    \cup {[valid |-> TRUE, extraction |-> "pages", pages |-> ps] : ps \in PageLists}
UrlItems == {it \in DocumentItems : it.valid}

\* lines 388-398 / 511-521: the chunks of all pages, numbered in page order
RECURSIVE create_chunks(_, _, _)
create_chunks(pages_data, all_chunks, global_chunk_index) ==
    IF pages_data = <<>> THEN all_chunks
    ELSE LET page_data == Head(pages_data)
             chunks == hybrid_chunking(page_data.text, TARGET_CHUNK_SIZE,
                                       MAX_CHUNK_SIZE, OVERLAP_SIZE)
             numbered == [k \in 1..Len(chunks) |->
                            [chunk_text |-> chunks[k],
                             chunk_index |-> global_chunk_index + k - 1,
                             page_number |-> page_data.page_number]]
         IN create_chunks(Tail(pages_data), all_chunks \o numbered,
                          global_chunk_index + Len(chunks))

\* lines 416-424 / 539-547: the chunks whose embedding was generated;
\* embedded[i] tells whether generate_embeddings_for_chunk gave a vector
\* for the i-th chunk
RECURSIVE embed_chunks(_, _, _)
embed_chunks(all_chunks, embedded, i) ==
    IF i > Len(all_chunks) THEN <<>>
    ELSE (IF embedded[i] THEN <<all_chunks[i]>> ELSE <<>>)
         \o embed_chunks(all_chunks, embedded, i + 1)

\* store_document_chunks (database_local.py 71-90): the records added
store_document_chunks(doc_name, chunks_data, doc_uuid) ==
    [k \in 1..Len(chunks_data) |->
        [id |-> <<doc_name, doc_uuid, k - 1>>,
         document |-> chunks_data[k].chunk_text,
         doc_name |-> doc_name,
         chunk_index |-> chunks_data[k].chunk_index,
         page_number |-> chunks_data[k].page_number]]

Failed(key, message) ==
    [key |-> key, status |-> "failed", message |-> message, chunks |-> 0]
Succeeded(key, n) ==
    [key |-> key, status |-> "success", message |-> "", chunks |-> n]

\* one iteration of the loop for item `file` at position key; validate is
\* TRUE for process_documents (step 1 of its loop), FALSE for process_urls
process_item(file, key, validate, embedded, stored_ok, doc_uuid) ==
    IF validate /\ ~file.valid THEN
        [status |-> Failed(key, "validation"), records |-> <<>>]
    ELSE IF file.extraction = "raise" THEN
        [status |-> Failed(key, "exception"), records |-> <<>>]
    ELSE IF file.pages = <<>> THEN
        [status |-> Failed(key, "extraction"), records |-> <<>>]
    ELSE
        LET all_chunks == create_chunks(file.pages, <<>>, 0)
            chunks_with_embeddings == embed_chunks(all_chunks, embedded, 1)
        IN IF all_chunks = <<>> THEN
               [status |-> Failed(key, "no chunks"), records |-> <<>>]
           ELSE IF chunks_with_embeddings = <<>> THEN
               [status |-> Failed(key, "embedding"), records |-> <<>>]
           ELSE IF stored_ok THEN
               [status |-> Succeeded(key, Len(chunks_with_embeddings)),
                records |-> store_document_chunks(key, chunks_with_embeddings, doc_uuid)]
           ELSE
               [status |-> Failed(key, "storage"), records |-> <<>>]

\* the most chunks one item can have
MaxItemChunks == 2 * MaxPages

\* the number of chunks of an item: the calls of generate_embeddings_for_chunk
\* its iteration makes (lines 416-424 / 539-547), none without pages
item_chunks(file) ==
    IF file.pages = <<>> THEN 0 ELSE Len(create_chunks(file.pages, <<>>, 0))

InitIngest ==
    /\ ChunkIdle
    /\ ChatIdle
    /\ SynthIdle
    /\ reply = NoReply
    /\ batch_kind \in {"documents", "urls"}
    /\ \E n \in 1..MaxBatch :
          uploaded_files \in [1..n -> IF batch_kind = "documents"
                                         THEN DocumentItems ELSE UrlItems]
    /\ item_index = 0
    /\ successful_files = 0
    /\ failed_files = 0
    /\ file_status = <<>>
    /\ collection = <<>>
    /\ store_calls = 0
    /\ ingest_pc = "loop"

\* a loop that an exception in one item ends
next_item_abort_on_exception(idx, status) ==
    IF status.message = "exception" THEN Len(uploaded_files) ELSE idx + 1

\* the for loop goes to the next item after `continue`, after the except
\* clause and after the end of the body alike
next_item(idx, status) == idx + 1

\* the loop body for the next item
ProcessItem(validate) ==
    /\ ingest_pc = "loop"
    /\ item_index < Len(uploaded_files)
    /\ \E embedded \in [1..item_chunks(uploaded_files[item_index + 1]) -> BOOLEAN],
          stored_ok \in BOOLEAN :
          LET key == item_index + 1
              result == process_item(uploaded_files[key], key, validate,
                                     embedded, stored_ok, store_calls + 1)
          IN /\ file_status' = Append(file_status, result.status)
             /\ collection' = collection \o result.records
             /\ store_calls' = IF result.records # <<>> THEN store_calls + 1
                                                         ELSE store_calls
             /\ successful_files' = IF result.status.status = "success"
                                       THEN successful_files + 1 ELSE successful_files
             /\ failed_files' = IF result.status.status = "failed"
                                   THEN failed_files + 1 ELSE failed_files
             /\ item_index' = next_item(item_index, result.status)
    /\ UNCHANGED <<batch_kind, uploaded_files, ingest_pc>>
    /\ UNCHANGED <<ck_vars, chat_vars, synth_vars, reply>>

\* process_documents, lines 360-456
ProcessDocument == batch_kind = "documents" /\ ProcessItem(TRUE)

\* process_urls, lines 492-585
ProcessUrl == batch_kind = "urls" /\ ProcessItem(FALSE)

\* the summary after the loop (lines 458-470 / 587-599)
FinishBatch ==
    /\ ingest_pc = "loop"
    /\ item_index = Len(uploaded_files)
    /\ ingest_pc' = "done"
    /\ UNCHANGED <<batch_kind, uploaded_files, item_index, successful_files,
                   failed_files, file_status, collection, store_calls>>
    /\ UNCHANGED <<ck_vars, chat_vars, synth_vars, reply>>

NextIngest == ProcessDocument \/ ProcessUrl \/ FinishBatch

SpecIngest == InitIngest /\ [][NextIngest]_vars

(***************************************************************************)
(* Chunker properties                                                      *)
(***************************************************************************)
ChunkDone == ck_pc = "done"

\* a chunk the sentence splitter cannot cut: it is one sentence
IsSingleSentence(chunk) == Len(split_sentences(chunk)) = 1

\* text with every whitespace character deleted
RECURSIVE NoSpace(_)
NoSpace(s) ==
    IF s = <<>> THEN <<>>
    ELSE (IF IsSpace(Head(s)) THEN <<>> ELSE <<Head(s)>>) \o NoSpace(Tail(s))

IsPrefix(p, s) == Len(p) <= Len(s) /\ SubSeq(s, 1, Len(p)) = p
IsSuffix(p, s) == Len(p) <= Len(s) /\ SubSeq(s, Len(s) - Len(p) + 1, Len(s)) = p
DropFirst(s, k) == SubSeq(s, k + 1, Len(s))

\* C1: with overlap < max_size < len(text), every returned chunk has length
\* <= max_size unless it is a single sentence longer than max_size.
C1_ChunkSizeBound ==
    (ChunkDone /\ overlap < max_size /\ max_size < Len(text)) =>
        \A i \in 1..Len(final_chunks) :
            Len(final_chunks[i]) <= max_size \/ IsSingleSentence(final_chunks[i])

\* C2 as stated: the chunks, each without a prefix that duplicates (the end
\* of) the last `overlap` characters of the previous chunk, concatenate to
\* the original text, character for character.
RECURSIVE RebuildsExactly(_, _, _, _)
RebuildsExactly(chunks, i, rest, ov) ==
    IF i > Len(chunks) THEN rest = <<>>
    ELSE \E k \in 0..(IF i = 1 THEN 0 ELSE ov) :
            /\ k <= Len(chunks[i])
            /\ i > 1 => IsSuffix(SubSeq(chunks[i], 1, k), LastChars(chunks[i - 1], ov))
            /\ IsPrefix(DropFirst(chunks[i], k), rest)
            /\ RebuildsExactly(chunks, i + 1,
                               DropFirst(rest, Len(chunks[i]) - k), ov)

C2_ChunkCompletenessExact ==
    ChunkDone => RebuildsExactly(final_chunks, 1, text, overlap)

\* C2 amended: up to whitespace, the chunks concatenate to the text once a
\* prefix of at most `overlap` characters is removed from each chunk after
\* the first; no non-whitespace character is dropped or reordered.
RECURSIVE RebuildsModuloSpace(_, _, _, _)
RebuildsModuloSpace(chunks, i, rest, ov) ==
    IF i > Len(chunks) THEN rest = <<>>
    ELSE \E k \in 0..(IF i = 1 THEN 0 ELSE ov) :
            /\ k <= Len(chunks[i])
            /\ LET body == NoSpace(DropFirst(chunks[i], k)) IN
                /\ IsPrefix(body, rest)
                /\ RebuildsModuloSpace(chunks, i + 1, DropFirst(rest, Len(body)), ov)

C2_ChunkCompletenessModuloSpace ==
    ChunkDone => RebuildsModuloSpace(final_chunks, 1, NoSpace(text), overlap)

\* witness: a text cut into three chunks with a real overlap
C2_Witness ==
    /\ ChunkDone
    /\ Len(final_chunks) >= 3
    /\ overlap > 0
    /\ Len(text) > target_size

\* C3: a non-empty text no longer than target_size comes back as the single
\* chunk <<text>>, unmodified; the empty text gives no chunk.
C3_SmallInputPassthrough ==
    ChunkDone =>
        /\ (text # <<>> /\ Len(text) <= target_size) => final_chunks = <<text>>
        /\ text = <<>> => final_chunks = <<>>

\* witness: a small text made of whitespace only is returned as it is
C3_Witness ==
    /\ ChunkDone
    /\ text # <<>>
    /\ Len(text) <= target_size
    /\ IsSpace(text[1])
    /\ final_chunks = <<text>>

(***************************************************************************)
(* Chat request properties                                                 *)
(***************************************************************************)
AskDone == chat_pc = "done"
\* the request reached the two searches
Searched == AskDone /\ search_calls > 0
Refused == outcome \in {"low_confidence", "no_relevant"}
IsLong(chunk) == Len(chunk_text(chunk)) > min_chunk_text_length

\* C4: the merged candidate list has no two entries with the same chunk_id
\* and is in ascending order of distance.
C4_MergedUniqueSorted ==
    Searched => HasNoDuplicateId(similar_chunks) /\ IsSortedByDistance(similar_chunks)

\* witness: both searches return the same chunk, with different distances,
\* and the merge still holds three candidates
C4_Witness ==
    /\ Searched
    /\ Len(similar_chunks) >= 3
    /\ \E i \in 1..Len(chunks_expanded), j \in 1..Len(chunks_original) :
          /\ chunks_expanded[i].chunk_id = chunks_original[j].chunk_id
          /\ chunks_expanded[i].distance > chunks_original[j].distance

\* C5: every chunk of the context handed to generate_rag_response has
\* distance < 1.8.
C5_ContextBelowFallback ==
    \A i \in 1..Len(context) : context[i].distance < fallback_threshold

\* witness: the fallback threshold decided; a candidate at 1.8 was dropped
\* and one between 1.2 and 1.8 went into the context
C5_Witness ==
    /\ AskDone
    /\ generate_calls = 1
    /\ \E i \in 1..Len(context) : context[i].distance >= primary_threshold
    /\ \E i \in 1..Len(similar_chunks) : similar_chunks[i].distance >= fallback_threshold

\* C6 as stated: if a retrieved candidate has distance < 1.2, the final
\* context is not empty.
C6_CloseCandidateGivesContext ==
    (Searched /\ \E i \in 1..Len(similar_chunks) :
                     similar_chunks[i].distance < primary_threshold)
        => context # <<>>

\* C6 amended: if a candidate kept by keyword gating has distance < 1.2 and
\* a text longer than 50 characters, the final context is not empty.
C6_CloseLongGatedCandidateGivesContext ==
    (Searched /\ \E c \in Range(keyword_gate(prompt, similar_chunks)) :
                     c.distance < primary_threshold /\ IsLong(c))
        => context # <<>>

\* witness: a close, long candidate is in the context while keyword gating
\* dropped another close candidate
C6_Witness ==
    /\ Searched
    /\ context # <<>>
    /\ \E c \in Range(similar_chunks) :
          /\ c.distance < primary_threshold
          /\ c \notin Range(keyword_gate(prompt, similar_chunks))

\* C7: if every retrieved candidate has distance >= 1.8, or there is none,
\* the request ends in the no-relevant-information outcome and
\* generate_rag_response is not called, for general and specific questions.
C7_RefusalWhenAllFar ==
    (Searched /\ \A i \in 1..Len(similar_chunks) :
                     similar_chunks[i].distance >= fallback_threshold)
        => /\ Refused
           /\ generate_calls = 0
           /\ outcome # "answered"

\* witness: a general question whose candidates are all at 1.8
C7_Witness ==
    /\ Searched
    /\ is_general(prompt)
    /\ similar_chunks # <<>>
    /\ \A i \in 1..Len(similar_chunks) : similar_chunks[i].distance >= fallback_threshold
    /\ outcome = "no_relevant"

\* C8: if the embedding of the prompt or of the expanded query fails, the
\* question is aborted and neither search is issued.
C8_EmbeddingFailureAborts ==
    (AskDone /\ outcome # "feedback"
        /\ (query_embedding = None \/ original_embedding = None))
        => outcome = "embedding_failed" /\ search_calls = 0

(***************************************************************************)
(* generate_rag_response properties                                        *)
(***************************************************************************)
SynthDone == synth_pc = "done"

IsFenceLine(line) == startswith(strip(line), code_fence)

\* every SQL-looking line lies between an opening and a closing fence line,
\* and every fence that opens is closed
RECURSIVE SqlLinesFenced(_, _)
SqlLinesFenced(lines, inside) ==
    IF lines = <<>> THEN ~inside
    ELSE IF IsFenceLine(Head(lines)) THEN SqlLinesFenced(Tail(lines), ~inside)
    ELSE (is_sql_line(Head(lines)) => inside) /\ SqlLinesFenced(Tail(lines), inside)

SqlLinesOf(txt) == SelectSeq(split_on(txt, NL), is_sql_line)

\* `kept` is `line`, or `line` without a leading numbered-list prefix
KeptVerbatim(line, kept) ==
    \/ kept = line
    \/ \E k \in 1..Len(line) :
          /\ line[k] = ")"
          /\ \A i \in 1..(k - 1) : IsDigit(line[i]) \/ IsSpace(line[i])
          /\ kept = strip(SubSeq(line, k + 1, Len(line)))

\* the answer as it enters the SQL re-flow
BeforeSqlFix == clean_end(clean_start(strip(reply.response)))

\* C9: when the answer contains 'create user', 'grant' or 'identified by',
\* every run of SQL-looking lines of the cleaned answer is enclosed by an
\* opening and a closing fence line (fences balanced), and each SQL line is
\* kept verbatim apart from a stripped numbered-list prefix.
C9_SqlRunsFenced ==
    (SynthDone /\ reply.status = "200" /\ ContainsAny(lower(answer), sql_fix_triggers)) =>
        /\ SqlLinesFenced(split_on(answer, NL), FALSE)
        /\ Len(SqlLinesOf(answer)) = Len(SqlLinesOf(BeforeSqlFix))
        /\ \A i \in 1..Len(SqlLinesOf(answer)) :
              KeptVerbatim(SqlLinesOf(BeforeSqlFix)[i], SqlLinesOf(answer)[i])

SourceChunks == {prompt_context[i].chunk : i \in 1..Len(prompt_context)}

\* C10: for a complete-steps or SQL question the prompt context is made of
\* the (at most) 7 lowest-distance chunks, every chunk with SQL vocabulary
\* before every chunk without, ascending distance inside both groups, the
\* first labelled PRIMARY SOURCE and the i-th ADDITIONAL SOURCE i.
C10_BroadModeContextOrder ==
    (SynthDone /\ is_broad_mode(question)) =>
        /\ Len(prompt_context) = (IF Len(context_chunks) < 7 THEN Len(context_chunks) ELSE 7)
        /\ Cardinality(SourceChunks) = Len(prompt_context)
        /\ SourceChunks \subseteq Range(context_chunks)
        /\ \A c \in Range(context_chunks) \ SourceChunks :
              \A d \in SourceChunks : d.distance <= c.distance
        /\ \A i, j \in 1..Len(prompt_context) :
              i < j =>
                LET a == prompt_context[i].chunk
                    b == prompt_context[j].chunk
                IN /\ ~(~has_sql_vocabulary(a) /\ has_sql_vocabulary(b))
                   /\ has_sql_vocabulary(a) = has_sql_vocabulary(b)
                        => a.distance <= b.distance
        /\ \A i \in 1..Len(prompt_context) :
              /\ prompt_context[i].number = i
              /\ prompt_context[i].label =
                    (IF i = 1 THEN "PRIMARY SOURCE - MOST RELEVANT"
                              ELSE "ADDITIONAL SOURCE")

\* witness: eight chunks were given, one was cut, and a chunk with SQL
\* vocabulary was promoted to PRIMARY SOURCE over a nearer chunk without
C10_Witness ==
    /\ SynthDone
    /\ is_broad_mode(question)
    /\ Len(context_chunks) = 8
    /\ Len(prompt_context) = 7
    /\ has_sql_vocabulary(prompt_context[1].chunk)
    /\ \E i \in 2..7 :
          /\ ~has_sql_vocabulary(prompt_context[i].chunk)
          /\ prompt_context[i].chunk.distance < prompt_context[1].chunk.distance

\* C11: for a question that matches neither a complete-steps nor an SQL
\* trigger, the prompt holds the text of exactly one chunk, the one of
\* lowest distance in the supplied context, whatever the supplied order.
C11_StandardModeSingleBest ==
    (SynthDone /\ ~is_broad_mode(question) /\ context_chunks # <<>>) =>
        /\ Len(prompt_context) = 1
        /\ prompt_context[1].chunk \in Range(context_chunks)
        /\ \A c \in Range(context_chunks) :
              prompt_context[1].chunk.distance <= c.distance

\* witness: a standard question whose supplied context starts with a chunk
\* that is not the nearest
C11_Witness ==
    /\ SynthDone
    /\ ~is_broad_mode(question)
    /\ Len(context_chunks) >= 3
    /\ Len(prompt_context) = 1
    /\ prompt_context[1].chunk.distance < context_chunks[1].distance

\* C12: invoked with an empty context, generate_rag_response fails (returns
\* no answer) and does not call the generation backend.
C12_EmptyContextFails ==
    (SynthDone /\ context_chunks = <<>>) => answer = None /\ post_calls = 0

(***************************************************************************)
(* Ingestion properties                                                    *)
(***************************************************************************)
IngestDone == ingest_pc = "done"

\* the records the collection holds for document d
RecordsOf(d) == {k \in 1..Len(collection) : collection[k].doc_name = d}
\* the chunks created for the i-th item of the batch
ChunksCreated(i) == create_chunks(uploaded_files[i].pages, <<>>, 0)

\* C13: an item with a chunk whose embedding failed is reported as failed
\* and none of its chunks is stored: a document is in the index only as a
\* whole, and only when its item is counted as successful.
C13_NoPartiallyEmbeddedDocument ==
    \A i \in 1..Len(file_status) :
        /\ file_status[i].status = "success"
              => Cardinality(RecordsOf(i)) = Len(ChunksCreated(i))
        /\ file_status[i].status = "failed" => RecordsOf(i) = {}

\* C14: every item of the batch is attempted exactly once, in order,
\* whatever happened to the items before it, and at the end of the batch
\* successful count + failed count is the number of items.
C14_BatchIsolation ==
    /\ Len(file_status) <= Len(uploaded_files)
    /\ \A i \in 1..Len(file_status) : file_status[i].key = i
    /\ successful_files + failed_files = Len(file_status)
    /\ successful_files =
          Cardinality({i \in 1..Len(file_status) : file_status[i].status = "success"})
    /\ IngestDone => Len(file_status) = Len(uploaded_files)

\* witness: a batch whose first item raised an exception and whose second
\* item was stored
C14_Witness ==
    /\ IngestDone
    /\ Len(uploaded_files) = 2
    /\ file_status[1].message = "exception"
    /\ file_status[2].status = "success"
    /\ successful_files = 1
    /\ failed_files = 1

\* C15: the chunk_index values stored for a document are pairwise distinct
\* and are 0..n-1, n the number of its stored chunks.
C15_ChunkIndexContiguous ==
    \A d \in {collection[k].doc_name : k \in 1..Len(collection)} :
        /\ \A j, k \in RecordsOf(d) :
              j # k => collection[j].chunk_index # collection[k].chunk_index
        /\ {collection[k].chunk_index : k \in RecordsOf(d)}
              = 0..(Cardinality(RecordsOf(d)) - 1)

(***************************************************************************)
(* Chat session properties                                                 *)
(***************************************************************************)
\* C16: the history changes only by turns appended at its end or by Clear
\* Chat emptying it; whatever the outcome of a chat input (answer, refusal,
\* feedback, embedding or generation failure), the turns that were in the
\* history stay, unmodified and in the same order.
C16_HistoryAppendOnly ==
    [][ClearChat \/ IsPrefix(messages, messages')]_vars

\* witness: a question failed on the query path in a session that already
\* holds an answered question
C16_Witness ==
    /\ AskDone
    /\ outcome \in {"embedding_failed", "generation_failed"}
    /\ Len(messages) >= 3
    /\ messages[1].role = "user"
    /\ messages[2].role = "assistant"
    /\ messages[Len(messages)] = UserTurn(prompt)

(***************************************************************************)
(* Query expander properties                                               *)
(***************************************************************************)
\* the chat input went through the query expansion
Expanded == AskDone /\ outcome # "feedback"

\* C17: for every rule of the trigger table and every trigger phrase of the
\* rule, a question that contains the phrase in any letter case gets the
\* rule's hints appended to the hint list, whatever other rules match.
C17_TriggersCaseInsensitive ==
    Expanded =>
        \A r \in 1..Len(expansion_rules) :
            \A t \in Range(expansion_rules[r].triggers) :
                Contains(lower(prompt), lower(t))
                    => Contains(query_hints, expansion_rules[r].hints)

\* the characters taken by the first k hints, each with the space before it
RECURSIVE HintsLength(_, _)
HintsLength(hints, k) ==
    IF k = 0 THEN 0 ELSE HintsLength(hints, k - 1) + 1 + Len(hints[k])

\* C18: with no hint the expanded query is the question unchanged; with
\* hints it is the question followed, for each hint in order, by one space
\* and the hint, and by nothing else.
C18_ExpandedQueryFormat ==
    Expanded =>
        IF query_hints = <<>> THEN expanded_query = prompt
        ELSE LET n == Len(query_hints)
                 at(i) == Len(prompt) + HintsLength(query_hints, i - 1)
             IN /\ Len(expanded_query) = Len(prompt) + HintsLength(query_hints, n)
                /\ SubSeq(expanded_query, 1, Len(prompt)) = prompt
                /\ \A i \in 1..n :
                      /\ expanded_query[at(i) + 1] = SP
                      /\ SubSeq(expanded_query, at(i) + 2,
                                at(i) + 1 + Len(query_hints[i])) = query_hints[i]

\* a question with hints from the conversation and from the trigger table
C18_Witness ==
    /\ Expanded
    /\ context_hints # <<>>
    /\ Len(query_hints) > Len(context_hints) + 1
    /\ Len(expanded_query) > Len(prompt)

\* the history as the expander saw it: up to the user turn of the question
HistoryAtQuestion ==
    IF messages # <<>> /\ messages[Len(messages)].role = "assistant"
        THEN SubSeq(messages, 1, Len(messages) - 1) ELSE messages

\* s[i..j] stands between whitespace (or the ends of s)
IsToken(s, i, j) ==
    /\ \A k \in i..j : ~IsSpace(s[k])
    /\ i = 1 \/ IsSpace(s[i - 1])
    /\ j = Len(s) \/ IsSpace(s[j + 1])

\* s[i..j] is two or more capitals between non-word characters (or the ends)
IsAcronym(s, i, j) ==
    /\ j > i
    /\ \A k \in i..j : IsUpper(s[k])
    /\ i = 1 \/ ~IsWordChar(s[i - 1])
    /\ j = Len(s) \/ ~IsWordChar(s[j + 1])

\* h is what one turn can give: a word of a user turn, longer than four
\* characters and outside the stop-list, or an all-capitals token of the
\* first 200 characters of an assistant turn, in lower case
ExtractedFrom(h, turn) ==
    LET n == Len(h)
        body == IF turn.role = "assistant"
                    THEN SubSeq(turn.content, 1,
                                IF Len(turn.content) < 200 THEN Len(turn.content) ELSE 200)
                    ELSE turn.content
    IN \E i \in 1..(Len(body) - n + 1) :
          /\ lower(SubSeq(body, i, i + n - 1)) = h
          /\ IF turn.role = "user"
                THEN n > 4 /\ h \notin context_stop_words /\ IsToken(body, i, i + n - 1)
                ELSE IsAcronym(body, i, i + n - 1)

C19_AcronymHint ==
    /\ Expanded
    /\ \E x \in 1..Len(context_hints) :
          \E k \in 1..Len(HistoryAtQuestion) :
              /\ HistoryAtQuestion[k].role = "assistant"
              /\ ExtractedFrom(context_hints[x], HistoryAtQuestion[k])

(***************************************************************************)
(* Merge properties                                                        *)
(***************************************************************************)
\* the results of the two searches in the order of their roles
MergeOrder == chunks_expanded \o chunks_original

\* where a chunk_id first stands in the merge order
FirstAt(id) ==
    SetMin({k \in 1..Len(MergeOrder) : MergeOrder[k].chunk_id = id})

\* C20: the merged candidate list is determined by the two result lists
\* taken by role, the expanded query's first: it holds one entry per
\* chunk_id found, the first one in that order (the expanded query's entry
\* for a chunk found by both searches), in ascending order of distance,
\* entries of equal distance standing as in that order.
C20_MergeFixedByRole ==
    Searched =>
        /\ {similar_chunks[i].chunk_id : i \in 1..Len(similar_chunks)}
               = {MergeOrder[k].chunk_id : k \in 1..Len(MergeOrder)}
        /\ \A i \in 1..Len(similar_chunks) :
              similar_chunks[i] = MergeOrder[FirstAt(similar_chunks[i].chunk_id)]
        /\ \A i, j \in 1..Len(similar_chunks) :
              i < j =>
                  \/ similar_chunks[i].distance < similar_chunks[j].distance
                  \/ /\ similar_chunks[i].distance = similar_chunks[j].distance
                     /\ FirstAt(similar_chunks[i].chunk_id)
                            < FirstAt(similar_chunks[j].chunk_id)

\* witness: a chunk found by both searches, nearer to the original query,
\* and two kept entries of equal distance, one from each search
C20_Witness ==
    /\ Searched
    /\ \E i \in 1..Len(chunks_expanded), j \in 1..Len(chunks_original) :
          /\ chunks_expanded[i].chunk_id = chunks_original[j].chunk_id
          /\ chunks_expanded[i].distance > chunks_original[j].distance
          /\ chunks_expanded[i] \in Range(similar_chunks)
    /\ \E i, j \in 1..Len(similar_chunks) :
          /\ i < j
          /\ similar_chunks[i].distance = similar_chunks[j].distance
          /\ similar_chunks[i] \in Range(chunks_expanded)
          /\ similar_chunks[j] \notin Range(chunks_expanded)

(***************************************************************************)
(* Keyword gating properties                                               *)
(***************************************************************************)
\* the request went through the first pass of the keyword gating
Gated == Searched /\ gating \in {"first_pass", "backfilled"}

\* the chunk's text holds no keyword of the question and none of its acronyms
NoLexicalMatch(chunk) ==
    /\ \A kw \in keywords_for(prompt) : ~in_chunk_text_lower(kw, chunk)
    /\ \A a \in Range(acronyms_for(prompt)) :
          /\ ~in_chunk_text_lower(lower(a), chunk)
          /\ ~in_chunk_text(a, chunk)

KeptByFirstPass(chunk) == chunk \in Range(first_pass_chunks)

\* the chunk's text holds no keyword of the question
NoKeyword(chunk) ==
    \A kw \in keywords_for(prompt) : ~in_chunk_text_lower(kw, chunk)

\* C21: in the first pass, a candidate without keyword or acronym match and
\* with distance in [0.9, 1.0) is kept exactly when it is one of the first
\* five candidates in ascending distance order; one without match and with
\* distance >= 1.0 is never kept.
C21_RuleD ==
    Gated =>
        \A k \in 1..Len(similar_chunks) :
            NoLexicalMatch(similar_chunks[k]) =>
                /\ (similar_chunks[k].distance >= 9 /\ similar_chunks[k].distance < 10)
                       => (KeptByFirstPass(similar_chunks[k]) <=> k <= 5)
                /\ similar_chunks[k].distance >= 10
                       => ~KeptByFirstPass(similar_chunks[k])

\* witness: the fifth candidate is kept by rule (d) and the sixth, as far
\* and as unmatched, is not
C21_Witness ==
    /\ Gated
    /\ Len(similar_chunks) >= 7
    /\ \A k \in {5, 6} :
          /\ NoLexicalMatch(similar_chunks[k])
          /\ similar_chunks[k].distance = 9
    /\ KeptByFirstPass(similar_chunks[5])
    /\ ~KeptByFirstPass(similar_chunks[6])

\* C22: when the first pass keeps fewer than 3 candidates, the gated list
\* holds min(10, number of candidates) entries, no candidate twice; the
\* gated list never holds more than 30 entries.
C22_Backfill ==
    Gated =>
        /\ Len(gated_chunks) <= 30
        /\ Len(first_pass_chunks) < 3 =>
              /\ Len(gated_chunks) =
                     (IF Len(similar_chunks) < 10 THEN Len(similar_chunks) ELSE 10)
              /\ \A i, j \in 1..Len(gated_chunks) :
                    i # j => gated_chunks[i] # gated_chunks[j]

\* witness: the first pass keeps one or two of more than ten candidates
\* and the backfill stops at ten
C22_Witness ==
    /\ Gated
    /\ Len(first_pass_chunks) \in {1, 2}
    /\ Len(similar_chunks) > 10
    /\ Len(gated_chunks) = 10

\* the first pass keeps more than thirty candidates and the list is cut
C22_CapReached ==
    /\ Gated
    /\ Len(first_pass_chunks) > 30
    /\ Len(gated_chunks) = 30

(***************************************************************************)
(* Cap and final context properties                                        *)
(***************************************************************************)
\* the request reached the cap of line 892
Capped == Searched /\ outcome # "low_confidence" /\ gated_chunks # <<>>

\* C23: the list to which the cap of 15 is applied is in ascending order of
\* distance, whether the backfill ran or not.
C23_CappedListSorted ==
    Capped => IsSortedByDistance(uncapped_chunks)

\* the first 15 entries of the list the cap is applied to
CapKept == SubSeq(uncapped_chunks, 1,
                  IF Len(uncapped_chunks) < 15 THEN Len(uncapped_chunks) ELSE 15)

\* C23 (amended): the list the cap is applied to is in ascending order of
\* distance when the backfill did not run; when it ran the list may be out
\* of order but holds at most 10 entries, so the cap removes nothing; in
\* both cases no entry cut by the cap is nearer than an entry kept, and the
\* context handed to the synthesizer is the kept entries.
C23_CapKeepsLowest ==
    Capped =>
        /\ gating # "backfilled" => IsSortedByDistance(uncapped_chunks)
        /\ gating = "backfilled" => Len(uncapped_chunks) <= 10
        /\ \A i \in 1..Len(CapKept), j \in (Len(CapKept) + 1)..Len(uncapped_chunks) :
              CapKept[i].distance <= uncapped_chunks[j].distance
        /\ generate_calls > 0 => Range(context) = Range(CapKept)

\* witness: after a backfill the list under the cap is out of order, and
\* the synthesizer is called with it
C23_Witness ==
    /\ Capped
    /\ gating = "backfilled"
    /\ ~IsSortedByDistance(uncapped_chunks)
    /\ generate_calls > 0
    /\ Len(context) = Len(uncapped_chunks)

\* the cap cuts a list of more than 15 entries
C23_CapCuts ==
    /\ Capped
    /\ Len(uncapped_chunks) > 15
    /\ Len(context) = 15

\* C24: whenever generate_rag_response is called from chat_page, its
\* context holds at most 15 chunks, in ascending order of distance, each
\* with a text of more than 50 characters.
C24_FinalContextShape ==
    generate_calls > 0 =>
        /\ Len(context) <= 15
        /\ \A i, j \in 1..Len(context) :
              i < j => context[i].distance <= context[j].distance
        /\ \A i \in 1..Len(context) :
              Len(chunk_text(context[i])) > min_chunk_text_length

\* witness: the context holds 15 chunks of two distances, cut from a longer
\* list from which short chunks were dropped
C24_Witness ==
    /\ generate_calls > 0
    /\ Len(context) = 15
    /\ context[1].distance < context[15].distance
    /\ Len(uncapped_chunks) > 15
    /\ \E c \in Range(gated_chunks) : Len(chunk_text(c)) <= min_chunk_text_length

(***************************************************************************)
(* Input classification properties                                         *)
(***************************************************************************)
\* the input holds a feedback phrase and is no question: it does not start
\* with a question word and holds no question mark
IsDiverted(q) ==
    /\ \E ph \in feedback_phrases : Contains(strip(lower(q)), ph)
    /\ ~\E w \in question_words : IsPrefix(w, strip(lower(q)))
    /\ "?" \notin Range(q)

\* C25: a chat input is diverted as feedback exactly when it holds a
\* feedback phrase and is no question; a diverted input leaves the history
\* as it is and causes no embedding, search or generation call; any other
\* input is appended as a user turn and goes through the pipeline: both
\* embeddings are requested and, if the embedding succeeds, both searches.
C25_InputClassification ==
    [][chat_pc = "input" =>
          IF IsDiverted(prompt)
              THEN /\ outcome' = "feedback"
                   /\ messages' = messages
                   /\ embedding_calls' = embedding_calls
                   /\ search_calls' = search_calls
                   /\ generate_calls' = generate_calls
              ELSE /\ outcome' # "feedback"
                   /\ IsPrefix(Append(messages, UserTurn(prompt)), messages')
                   /\ embedding_calls' = embedding_calls + 2
                   /\ query_embedding # None => search_calls' = search_calls + 2]_vars

\* witness: 'hello' after one exchange was appended and searched
C25_Witness ==
    /\ AskDone
    /\ prompt = P_hello
    /\ Len(messages) >= 3
    /\ messages[3] = UserTurn(P_hello)
    /\ embedding_calls = 2
    /\ search_calls = 2

\* a diverted input after one exchange
C25_Diverted ==
    /\ AskDone
    /\ outcome = "feedback"
    /\ Len(messages) = 2
    /\ embedding_calls = 0

(***************************************************************************)
(* Wiring of the synthesizer                                               *)
(***************************************************************************)
\* C26: chat_page calls generate_rag_response at most once for a question,
\* and only with a context that is not empty.
C26_SynthesizerWiring ==
    /\ generate_calls <= 1
    /\ generate_calls > 0 => context # <<>>
    /\ (AskDone /\ context = <<>>) => generate_calls = 0

\* witness: the backend returned an empty answer; the synthesizer was
\* called once, with a context, and the request ended without an answer
C26_Witness ==
    /\ AskDone
    /\ generate_calls = 1
    /\ context # <<>>
    /\ reply.status = "200"
    /\ outcome = "generation_failed"

(***************************************************************************)
(* Leading-echo stripping properties                                       *)
(***************************************************************************)
\* the loop of lines 172-189 ran on the lines of the backend's answer
StartCleaned == SynthDone /\ reply.status = "200" /\ strip(reply.response) # <<>>
RawLines == split_on(strip(reply.response), NL)

IsEmptyLine(line) == strip(line) = <<>>
\* what the pass may remove from the top
IsRemovable(line) == IsEmptyLine(line) \/ is_instruction(line) \/ is_fragment(line)

\* the non-empty lines that are no instruction echo
NonEchoLines == {k \in 1..Len(RawLines) :
                    ~IsEmptyLine(RawLines[k]) /\ ~is_instruction(RawLines[k])}
\* the non-empty lines that are neither instruction echo nor short fragment
ContentLines == {k \in NonEchoLines : ~is_fragment(RawLines[k])}

\* C27: lines are removed from the top only, and only empty lines,
\* instruction echoes and short fragments; from the first non-empty line
\* that is no instruction echo on, every line is kept, in order.
C27_StopsAtFirstNonEcho ==
    StartCleaned =>
        \E m \in 1..(IF NonEchoLines = {} THEN Len(RawLines) + 1
                     ELSE SetMin(NonEchoLines) + 1) :
            /\ \A j \in 1..(m - 1) : IsRemovable(RawLines[j])
            /\ cleaned_lines = SubSeq(RawLines, m, Len(RawLines))

\* C27 (amended): every line before the first non-empty line that is
\* neither an instruction echo nor a short fragment is removed, and that
\* line and every later one are kept, in order, whatever they match; if
\* there is no such line, nothing is kept.
C27_StopsAtFirstContent ==
    StartCleaned =>
        IF ContentLines = {} THEN cleaned_lines = <<>>
        ELSE cleaned_lines = SubSeq(RawLines, SetMin(ContentLines), Len(RawLines))

\* witness: an echo is removed from the top and an echo after the first
\* content line is kept
C27_Witness ==
    /\ StartCleaned
    /\ Len(RawLines) = 3
    /\ is_instruction(RawLines[1])
    /\ ContentLines # {} /\ SetMin(ContentLines) = 2
    /\ is_instruction(RawLines[3])
    /\ cleaned_lines = <<RawLines[2], RawLines[3]>>

(***************************************************************************)
(* Backfill properties                                                     *)
(***************************************************************************)
\* C28: whenever the first pass keeps fewer than 3 candidates, the re-scan
\* of the best 15 candidates for keyword matches adds none: the list after
\* the re-scan is the list after the first pass, and what the backfill adds
\* comes from the append of the best candidates.
C28_RescanAddsNothing ==
    (Gated /\ gating = "backfilled") =>
        /\ rescan_chunks = first_pass_chunks
        /\ IsPrefix(first_pass_chunks, gated_chunks)
        /\ \A k \in 1..Len(similar_chunks) :
              (k <= 15 /\ ~NoKeyword(similar_chunks[k]))
                  => KeptByFirstPass(similar_chunks[k])

\* witness: the first pass keeps a candidate for its keyword, the re-scan
\* meets it again among the best 15, and the backfill appends the others
C28_Witness ==
    /\ Gated
    /\ gating = "backfilled"
    /\ first_pass_chunks # <<>>
    /\ ~NoKeyword(first_pass_chunks[1])
    /\ first_pass_chunks[1].distance >= 10
    /\ Len(gated_chunks) > Len(first_pass_chunks)

(***************************************************************************)
(* Shape of the chat history                                               *)
(***************************************************************************)
\* C29: every assistant turn of the history stands right after a user turn,
\* so no two assistant turns are adjacent; the assistant turn appended by a
\* request stands right after the user turn of that request (as long as
\* the chat has not been cleared since).
C29_HistoryShape ==
    /\ \A i \in 1..Len(messages) :
          messages[i].role = "assistant" => i > 1 /\ messages[i - 1].role = "user"
    /\ (AskDone /\ outcome \in {"answered", "no_relevant"} /\ messages # <<>>) =>
          /\ Len(messages) >= 2
          /\ messages[Len(messages)] = AssistantTurn(response)
          /\ messages[Len(messages) - 1] = UserTurn(prompt)

\* witness: a user turn left without an answer, followed by an answered
\* question
C29_Witness ==
    /\ AskDone
    /\ outcome = "answered"
    /\ Len(messages) = 3
    /\ messages[1].role = "user"
    /\ messages[2].role = "user"
    /\ messages[3].role = "assistant"

(***************************************************************************)
(* The question among the scanned turns                                    *)
(***************************************************************************)
\* the question holds a whitespace-separated word of more than 4 characters
\* that is not in the context stop-list
HasLongWord(q) ==
    \E i, j \in 1..Len(q) :
        /\ j - i + 1 > 4
        /\ IsToken(q, i, j)
        /\ lower(SubSeq(q, i, j)) \notin context_stop_words

====
